---- MODULE Spec2Model ----
(***************************************************************************)
(* Health-export ingestion pipeline of the workout importer plugin         *)
(* (src/main.ts): the ZIP container decoder, the archive classification of *)
(* processZipFile, the workout-record normaliser, the time-series parser   *)
(* and the detail correlator.                                              *)
(*                                                                         *)
(* Text is a sequence of one-character strings, a byte buffer a sequence   *)
(* of 0..255 addressed from offset 0 as in the source (element off+1).     *)
(* Instants (Date values) are milliseconds counted from local midnight of  *)
(* 2024-09-01, so that they stay inside TLC's 32-bit integers.             *)
(***************************************************************************)
EXTENDS Integers, Sequences, FiniteSets, TLC

VARIABLES
    \* ---- ZIP container decoder (parseZipEntries / decodeZipEntry)
    bytes,          \* the archive buffer (Uint8Array)
    zpc,            \* position: "parse", "walk", "decode", "done", "rangeError", "inflateError"
    totalEntries,   \* value read from the end-of-central-directory record
    offset,         \* central-directory cursor
    i,              \* loop counter of the central-directory walk
    entries,        \* ZipEntryInfo[] collected so far
    walkEnd,        \* how the walk ended: "", "empty", "guard", "sig", "name", "local"
    decIdx,         \* next entry handed to decodeZipEntry
    decoded         \* results of decodeZipEntry, entry by entry

zipVars == <<bytes, zpc, totalEntries, offset, i, entries, walkEnd, decIdx, decoded>>

VARIABLES
    \* ---- processZipFile / importCsvRowsWithDetailData
    zipFile,        \* the archive being processed: what parseZipEntries returns for
                    \* it, each entry with the result decodeZipEntry has on it
    vault,          \* note paths that exist in the vault
    ppc,            \* position: "read", "classify", "summary", "import", "finally", "done"
    idx,            \* loop index of the classification loop
    summaryEntry,   \* index of the entry held as summary, 0 for null
    detailEntries,  \* Array<{ name, csvText }>
    rows,           \* rows parsed from the summary
    rowIdx,         \* loop index of the import loop
    created,        \* notes created by this run, in order
    correlated,     \* calls of extractDetailDataForWorkout: note path, set passed
    saved,          \* note paths whose detail data was saved, in order
    deleteOnSuccess,
    removed,        \* adapter.remove(filePath) removed the archive
    caught          \* the catch block of processZipFile ran

ingestVars == <<zipFile, vault, ppc, idx, summaryEntry, detailEntries, rows, rowIdx,
                created, correlated, saved, deleteOnSuccess, removed, caught>>

VARIABLES
    \* ---- parseDetailCsv
    csvText,        \* the text of one detail CSV
    spc,            \* position: "start", "rows", "done"
    lines,          \* csvText.trim().split("\n")
    header,         \* parseCsvLine(lines[0])
    lineNo,         \* loop index i
    dataPoints      \* TimeSeriesDataPoint[]

seriesVars == <<csvText, spc, lines, header, lineNo, dataPoints>>

VARIABLES
    \* ---- createWorkoutFromCsvRecord
    record,         \* one row of the summary CSV, header -> field
    wpc,            \* position: "call", "returned", "threw"
    workout         \* the value returned

workoutVars == <<record, wpc, workout>>

VARIABLES
    \* ---- extractDetailDataForWorkout
    forWorkout,     \* the workout argument
    detailFiles,    \* the detailEntries argument: records of name and csvText
    dpc,            \* position: "call", "loop", "returned"
    detailIdx,      \* 1-based index of the detail file the loop is at
    detailData,     \* the bundle being filled
    matchedCount,
    matched         \* indices of the files that passed both checks (line 708)

detailVars == <<forWorkout, detailFiles, dpc, detailIdx, detailData, matchedCount, matched>>

VARIABLES
    \* ---- parseCsvLine
    lineArg,        \* the line argument
    tpc,            \* position: "call", "returned"
    fields          \* the string[] returned

lineVars == <<lineArg, tpc, fields>>

VARIABLES
    \* ---- scanWatchFolder / processCsvSummaryFile
    isScanningFolder,   \* the field of line 125
    watchFolder,        \* the files in the watch folder
    scan,               \* the invocations of scanWatchFolder, each with its
                        \* position, the files it still has to process, the
                        \* deleteOnSuccess of the processCsvSummaryFile it is
                        \* in, and how it ended
    removals            \* the CSV files removed, with what was known then

scanVars == <<isScanningFolder, watchFolder, scan, removals>>

VARIABLES
    \* ---- a component of the ingestion core called twice on one argument
    runNo,          \* "first" or "second"
    firstResult     \* what the first call gave, once it is over

coreVars == <<runNo, firstResult>>

vars == <<zipVars, ingestVars, seriesVars, workoutVars, detailVars, lineVars, scanVars,
          coreVars>>

(***************************************************************************)
(* Generic helpers on sequences.                                           *)
(***************************************************************************)
RECURSIVE Concat(_)
Concat(ss) == IF ss = <<>> THEN <<>> ELSE Head(ss) \o Concat(Tail(ss))

Zeros(n) == [k \in 1..n |-> 0]

Slice(s, from, to) == [k \in 1..(to - from) |-> s[from + k]]

(***************************************************************************)
(* DataView reads, little-endian.  A read outside the buffer raises a      *)
(* RangeError in the source; InBuffer is the condition under which it does *)
(* not.  A 32-bit value of 2^29 or more is represented by 2^29: it is only *)
(* ever compared with signatures and buffer lengths below that.            *)
(***************************************************************************)
Uint32Cap == 2^29

InBuffer(b, off, n) == off >= 0 /\ off + n <= Len(b)

GetUint16(b, off) == b[off + 1] + 256 * b[off + 2]

GetUint32(b, off) ==
    IF b[off + 4] >= 32 THEN Uint32Cap
    ELSE b[off + 1] + 256 * b[off + 2] + 65536 * b[off + 3] + 16777216 * b[off + 4]

EocdSignature == <<80, 75, 5, 6>>
CentralSignature == <<80, 75, 1, 2>>
LocalSignature == <<80, 75, 3, 4>>

SigValue(sig) == sig[1] + 256 * sig[2] + 65536 * sig[3] + 16777216 * sig[4]

MinEocdSize == 22
CentralFixedSize == 46
LocalFixedSize == 30
MaxCommentSearch == 65535

(***************************************************************************)
(* findEndOfCentralDirectory: the backward search for 0x06054b50 from      *)
(* length - 22 down to the search floor.  The loop returns the first match *)
(* it meets, which is the highest matching offset: -1 when there is none,  *)
(* -2 when a read on the way would leave the buffer.                       *)
(***************************************************************************)
Min(a, b) == IF a < b THEN a ELSE b

\* mutant of SearchFloor: the search goes down to the start of the buffer
SearchFloorWholeBuffer(len) == 0

\* lines 2710-2711: the lowest offset the loop reads
SearchFloor(len) == (len - MinEocdSize) - Min(len - MinEocdSize, MaxCommentSearch)

SearchRange(len) == { k \in SearchFloor(len)..(len - MinEocdSize) : k >= 0 }

findEndOfCentralDirectory(b) ==
    IF Len(b) < MinEocdSize THEN -1
    ELSE LET hits == { k \in SearchRange(Len(b)) :
                          InBuffer(b, k, 4) /\ GetUint32(b, k) = SigValue(EocdSignature) }
             first == IF hits = {} THEN -1
                      ELSE CHOOSE k \in hits : \A h \in hits : h <= k
         IN  IF \E k \in SearchRange(Len(b)) : k > first /\ ~InBuffer(b, k, 4)
             THEN -2 ELSE first

(***************************************************************************)
(* Archive buffers the decoder is run on.  An archive is laid out as       *)
(* local headers with payloads, then the central directory, then the       *)
(* end-of-central-directory record; each entry and the trailing record     *)
(* may be damaged in one of the ways the decoder guards against.           *)
(***************************************************************************)
MaxEntries == 2

U16(n) == <<n % 256, n \div 256>>
U32(n) == <<n % 256, (n \div 256) % 256, (n \div 65536) % 256, n \div 16777216>>

BeyondBuffer == 60000

\* kind: "ok" well formed; "big" compressed size runs past the buffer;
\* "lho" local header offset past the buffer; "sig" central signature wrong;
\* "nlen" file-name length runs past the buffer; "xtra" extra and comment
\* fields present in both headers.
EntrySpecs ==
    { [kind |-> "ok",   method |-> 0,  data |-> <<104>>],
      [kind |-> "ok",   method |-> 8,  data |-> <<7>>],
      [kind |-> "ok",   method |-> 8,  data |-> <<3, 0>>],
      [kind |-> "ok",   method |-> 12, data |-> <<104>>],
      [kind |-> "xtra", method |-> 0,  data |-> <<239, 187, 191, 104>>],
      [kind |-> "big",  method |-> 0,  data |-> <<104>>],
      [kind |-> "lho",  method |-> 0,  data |-> <<104>>],
      [kind |-> "sig",  method |-> 0,  data |-> <<104>>],
      [kind |-> "nlen", method |-> 0,  data |-> <<104>>] }

EocdKinds == {"ok", "nosig", "more", "cdzero", "cdbeyond", "comment", "short"}

EntryName(k) == <<96 + k>>

LocalExtra(e) == IF e.kind = "xtra" THEN <<1, 2>> ELSE <<>>
CentralExtra(e) == IF e.kind = "xtra" THEN <<9>> ELSE <<>>
CentralComment(e) == IF e.kind = "xtra" THEN <<33>> ELSE <<>>

LocalRecord(e, k) ==
    LocalSignature \o Zeros(4) \o U16(e.method) \o Zeros(8)
        \o U32(Len(e.data)) \o U32(Len(e.data))
        \o U16(Len(EntryName(k))) \o U16(Len(LocalExtra(e)))
        \o EntryName(k) \o LocalExtra(e) \o e.data

CentralRecord(e, k, localOff) ==
    (IF e.kind = "sig" THEN <<80, 75, 7, 8>> ELSE CentralSignature)
        \o Zeros(6) \o U16(e.method) \o Zeros(8)
        \o U32(IF e.kind = "big" THEN BeyondBuffer ELSE Len(e.data))
        \o U32(Len(e.data))
        \o U16(IF e.kind = "nlen" THEN BeyondBuffer ELSE Len(EntryName(k)))
        \o U16(Len(CentralExtra(e))) \o U16(Len(CentralComment(e)))
        \o Zeros(8)
        \o U32(IF e.kind = "lho" THEN BeyondBuffer ELSE localOff)
        \o EntryName(k) \o CentralExtra(e) \o CentralComment(e)

RECURSIVE LocalSection(_, _)
LocalSection(es, k) ==
    IF k > Len(es) THEN <<>>
    ELSE LocalRecord(es[k], k) \o LocalSection(es, k + 1)

RECURSIVE LocalOffsetOf(_, _)
LocalOffsetOf(es, k) ==
    IF k = 1 THEN 0
    ELSE LocalOffsetOf(es, k - 1) + Len(LocalRecord(es[k - 1], k - 1))

RECURSIVE CentralSection(_, _)
CentralSection(es, k) ==
    IF k > Len(es) THEN <<>>
    ELSE CentralRecord(es[k], k, LocalOffsetOf(es, k)) \o CentralSection(es, k + 1)

EocdRecord(es, ek) ==
    LET cd == CentralSection(es, 1)
        cdOff == Len(LocalSection(es, 1))
        full ==
            (IF ek = "nosig" THEN <<80, 75, 5, 5>> ELSE EocdSignature)
                \o Zeros(4) \o U16(Len(es))
                \o U16(IF ek = "more" THEN Len(es) + 1 ELSE Len(es))
                \o U32(Len(cd))
                \o U32(CASE ek = "cdzero" -> 0
                         [] ek = "cdbeyond" -> BeyondBuffer
                         [] OTHER -> cdOff)
                \o (IF ek = "comment" THEN U16(2) \o <<122, 122>> ELSE U16(0))
    IN  IF ek = "short" THEN SubSeq(full, 1, MinEocdSize - 1) ELSE full

Archive(es, ek) ==
    IF ek = "short" THEN EocdRecord(<<>>, ek)
    ELSE LocalSection(es, 1) \o CentralSection(es, 1) \o EocdRecord(es, ek)

EntryLists == UNION { [1..n -> EntrySpecs] : n \in 0..MaxEntries }

\* a well-formed one-entry archive followed by zero bytes: with 65535 of them
\* the end record sits on the floor of the search, with more of them below it
TrailingPads == { MaxCommentSearch, MaxCommentSearch + 1, MaxCommentSearch + 2 }

PaddedArchives ==
    { Archive(<<[kind |-> "ok", method |-> 0, data |-> <<104>>]>>, "ok") \o Zeros(n) :
        n \in TrailingPads }

WalkArchives == { Archive(es, ek) : es \in EntryLists, ek \in EocdKinds }

Archives == WalkArchives \cup PaddedArchives

(***************************************************************************)
(* TEXT_DECODER.decode: the UTF-8 decoder of the platform (WHATWG), with   *)
(* the default options: malformed sequences give U+FFFD and a leading      *)
(* byte-order mark is dropped.  The result is a sequence of code points.   *)
(***************************************************************************)
RECURSIVE Utf8Run(_, _, _, _, _, _)
Utf8Run(b, k, needed, cp, lower, upper) ==
    IF k > Len(b) THEN (IF needed > 0 THEN <<65533>> ELSE <<>>)
    ELSE LET c == b[k] IN
        IF needed = 0 THEN
            IF c < 128 THEN <<c>> \o Utf8Run(b, k + 1, 0, 0, 128, 191)
            ELSE IF c >= 194 /\ c <= 223 THEN Utf8Run(b, k + 1, 1, c - 192, 128, 191)
            ELSE IF c >= 224 /\ c <= 239 THEN
                Utf8Run(b, k + 1, 2, c - 224,
                        IF c = 224 THEN 160 ELSE 128, IF c = 237 THEN 159 ELSE 191)
            ELSE IF c >= 240 /\ c <= 244 THEN
                Utf8Run(b, k + 1, 3, c - 240,
                        IF c = 240 THEN 144 ELSE 128, IF c = 244 THEN 143 ELSE 191)
            ELSE <<65533>> \o Utf8Run(b, k + 1, 0, 0, 128, 191)
        ELSE IF c < lower \/ c > upper THEN <<65533>> \o Utf8Run(b, k, 0, 0, 128, 191)
        ELSE IF needed = 1 THEN <<cp * 64 + (c - 128)>> \o Utf8Run(b, k + 1, 0, 0, 128, 191)
        ELSE Utf8Run(b, k + 1, needed - 1, cp * 64 + (c - 128), 128, 191)

ByteOrderMark == 65279

Utf8Decode(b) ==
    LET r == Utf8Run(b, 1, 0, 0, 128, 191)
    IN  IF r # <<>> /\ r[1] = ByteOrderMark THEN Tail(r) ELSE r

(***************************************************************************)
(* parseZipEntries, one action per loop iteration.                         *)
(***************************************************************************)
WalkGuard(k, total, off, len) == k < total /\ off + CentralFixedSize <= len

NameFits(off, fileNameLength, len) == off + CentralFixedSize + fileNameLength <= len

LocalHeaderFits(localHeaderOffset, len) == localHeaderOffset + LocalFixedSize <= len

\* mutant of DataStart: the local extra field is not skipped
DataStartIgnoringExtra(localHeaderOffset, localNameLength, localExtraLength) ==
    localHeaderOffset + LocalFixedSize + localNameLength

\* line 2665
DataStart(localHeaderOffset, localNameLength, localExtraLength) ==
    localHeaderOffset + LocalFixedSize + localNameLength + localExtraLength

\* mutant of PayloadFits: the compressed size is left out of the test
PayloadFitsIgnoringSize(dataStart, compressedSize, len) == dataStart <= len

PayloadFits(dataStart, compressedSize, len) == dataStart + compressedSize <= len

NextRecord(off, fileNameLength, extraLength, commentLength) ==
    off + CentralFixedSize + fileNameLength + extraLength + commentLength

ZipInit ==
    /\ bytes \in Archives
    /\ zpc = "parse"
    /\ totalEntries = 0
    /\ offset = 0
    /\ i = 0
    /\ entries = <<>>
    /\ walkEnd = ""
    /\ decIdx = 1
    /\ decoded = <<>>

\* lines 2625-2638: the length test, the search, the two reads of the record
ParseStart ==
    /\ zpc = "parse"
    /\ LET eocdOffset == findEndOfCentralDirectory(bytes) IN
        IF Len(bytes) < MinEocdSize \/ eocdOffset = -1 THEN
            /\ zpc' = "decode"
            /\ walkEnd' = "empty"
            /\ UNCHANGED <<totalEntries, offset>>
        ELSE IF eocdOffset = -2
                \/ ~InBuffer(bytes, eocdOffset + 10, 2)
                \/ ~InBuffer(bytes, eocdOffset + 16, 4) THEN
            /\ zpc' = "rangeError"
            /\ UNCHANGED <<totalEntries, offset, walkEnd>>
        ELSE
            /\ totalEntries' = GetUint16(bytes, eocdOffset + 10)
            /\ offset' = GetUint32(bytes, eocdOffset + 16)
            /\ zpc' = "walk"
            /\ UNCHANGED walkEnd
    /\ UNCHANGED <<bytes, i, entries, decIdx, decoded>>

\* mutant of WalkStops: an early exit discards what was collected
WalkStopsDiscarding(why) ==
    /\ zpc' = "decode"
    /\ walkEnd' = why
    /\ entries' = <<>>
    /\ UNCHANGED <<offset, i>>

\* lines 2640-2661, 2682: the loop is left and entries returned
WalkStops(why) ==
    /\ zpc' = "decode"
    /\ walkEnd' = why
    /\ UNCHANGED <<offset, i, entries>>

WalkThrows ==
    /\ zpc' = "rangeError"
    /\ UNCHANGED <<offset, i, entries, walkEnd>>

\* lines 2640-2680: one iteration of the central-directory loop
CdStep ==
    /\ zpc = "walk"
    /\ UNCHANGED <<bytes, totalEntries, decIdx, decoded>>
    /\ IF ~WalkGuard(i, totalEntries, offset, Len(bytes)) THEN WalkStops("guard")
       ELSE IF ~InBuffer(bytes, offset, 4) THEN WalkThrows
       ELSE IF GetUint32(bytes, offset) # SigValue(CentralSignature) THEN WalkStops("sig")
       ELSE IF ~InBuffer(bytes, offset + 10, CentralFixedSize - 10) THEN WalkThrows
       ELSE
        LET fileNameLength == GetUint16(bytes, offset + 28)
            extraLength == GetUint16(bytes, offset + 30)
            commentLength == GetUint16(bytes, offset + 32)
            compressionMethod == GetUint16(bytes, offset + 10)
            compressedSize == GetUint32(bytes, offset + 20)
            localHeaderOffset == GetUint32(bytes, offset + 42)
        IN
        IF ~NameFits(offset, fileNameLength, Len(bytes)) THEN WalkStops("name")
        ELSE IF ~LocalHeaderFits(localHeaderOffset, Len(bytes)) THEN WalkStops("local")
        ELSE IF ~InBuffer(bytes, localHeaderOffset + 26, 4) THEN WalkThrows
        ELSE
            LET fileName ==
                    Utf8Decode(Slice(bytes, offset + CentralFixedSize,
                                     offset + CentralFixedSize + fileNameLength))
                localNameLength == GetUint16(bytes, localHeaderOffset + 26)
                localExtraLength == GetUint16(bytes, localHeaderOffset + 28)
                dataStart == DataStart(localHeaderOffset, localNameLength, localExtraLength)
            IN
            /\ entries' =
                IF PayloadFits(dataStart, compressedSize, Len(bytes))
                THEN Append(entries, [name |-> fileName,
                                      compressionMethod |-> compressionMethod,
                                      compressedSize |-> compressedSize,
                                      dataStart |-> dataStart])
                ELSE entries
            /\ offset' = NextRecord(offset, fileNameLength, extraLength, commentLength)
            /\ i' = i + 1
            /\ UNCHANGED <<zpc, walkEnd>>

(***************************************************************************)
(* inflateRawSync (zlib): the outcomes it can have on a slice.  A slice    *)
(* that is empty or opens with the reserved block type (BTYPE = 3) is      *)
(* rejected with an exception; <<3, 0>> is the empty fixed-Huffman stream; *)
(* the outcome on any other slice is left open.                            *)
(***************************************************************************)
InflateFails == [ok |-> FALSE, out |-> <<>>]

InflatedSamples == { <<>>, <<104>> }

inflateRawSync(slice) ==
    IF slice = <<>> \/ (slice[1] \div 2) % 4 = 3 THEN { InflateFails }
    ELSE IF slice = <<3, 0>> THEN { [ok |-> TRUE, out |-> <<>>] }
    ELSE { InflateFails } \cup { [ok |-> TRUE, out |-> d] : d \in InflatedSamples }

Stored == 0
Deflated == 8

\* mutant of decodeZipEntry: a method other than deflate is read as stored
decodeZipEntryAnyMethodStored(b, entry) ==
    IF entry.dataStart + entry.compressedSize > Len(b) THEN { [kind |-> "null", text |-> <<>>] }
    ELSE LET slice == Slice(b, entry.dataStart, entry.dataStart + entry.compressedSize) IN
        IF entry.compressionMethod = Deflated
        THEN { IF r.ok THEN [kind |-> "text", text |-> Utf8Decode(r.out)]
                       ELSE [kind |-> "throw", text |-> <<>>] : r \in inflateRawSync(slice) }
        ELSE { [kind |-> "text", text |-> Utf8Decode(slice)] }

\* lines 2685-2702: the set of results; "throw" is the exception of inflateRawSync
decodeZipEntry(b, entry) ==
    IF entry.dataStart + entry.compressedSize > Len(b) THEN { [kind |-> "null", text |-> <<>>] }
    ELSE LET slice == Slice(b, entry.dataStart, entry.dataStart + entry.compressedSize) IN
        IF entry.compressionMethod = Stored
        THEN { [kind |-> "text", text |-> Utf8Decode(slice)] }
        ELSE IF entry.compressionMethod = Deflated
        THEN { IF r.ok THEN [kind |-> "text", text |-> Utf8Decode(r.out)]
                       ELSE [kind |-> "throw", text |-> <<>>] : r \in inflateRawSync(slice) }
        ELSE { [kind |-> "null", text |-> <<>>] }

\* decodeZipEntry applied to the entries parseZipEntries returned, in order
DecodeStep ==
    /\ zpc = "decode"
    /\ decIdx <= Len(entries)
    /\ \E r \in decodeZipEntry(bytes, entries[decIdx]) :
        IF r.kind = "throw"
        THEN /\ zpc' = "inflateError"
             /\ UNCHANGED <<decIdx, decoded>>
        ELSE /\ decoded' = Append(decoded, r)
             /\ decIdx' = decIdx + 1
             /\ UNCHANGED zpc
    /\ UNCHANGED <<bytes, totalEntries, offset, i, entries, walkEnd>>

DecodeDone ==
    /\ zpc = "decode"
    /\ decIdx > Len(entries)
    /\ zpc' = "done"
    /\ UNCHANGED <<bytes, totalEntries, offset, i, entries, walkEnd, decIdx, decoded>>


(***************************************************************************)
(* String operations of the platform, on sequences of characters.          *)
(***************************************************************************)
StartsWith(s, p) == Len(s) >= Len(p) /\ SubSeq(s, 1, Len(p)) = p

EndsWith(s, p) == Len(s) >= Len(p) /\ SubSeq(s, Len(s) - Len(p) + 1, Len(s)) = p

\* String.prototype.indexOf: 0-based offset of the first occurrence, -1 if none
IndexOf(s, p) ==
    LET at == { k \in 0..(Len(s) - Len(p)) : SubSeq(s, k + 1, k + Len(p)) = p }
    IN  IF at = {} THEN -1 ELSE CHOOSE k \in at : \A h \in at : k <= h

\* String.prototype.split with a one-character separator
RECURSIVE Split(_, _)
Split(s, c) ==
    LET k == IndexOf(s, <<c>>)
    IN  IF k = -1 THEN <<s>>
        ELSE <<SubSeq(s, 1, k)>> \o Split(SubSeq(s, k + 2, Len(s)), c)

\* Array.prototype.join
RECURSIVE Join(_, _)
Join(parts, c) ==
    IF parts = <<>> THEN <<>>
    ELSE IF Len(parts) = 1 THEN parts[1]
    ELSE parts[1] \o <<c>> \o Join(Tail(parts), c)

\* String.prototype.replace with a string pattern: the first occurrence only
ReplaceFirst(s, p, by) ==
    LET k == IndexOf(s, p)
    IN  IF k = -1 THEN s
        ELSE SubSeq(s, 1, k) \o by \o SubSeq(s, k + Len(p) + 1, Len(s))

Last(seq) == seq[Len(seq)]

\* String.prototype.toLowerCase on the letters A-Z
UpperCase == <<"A","B","C","D","E","F","G","H","I","J","K","L","M",
               "N","O","P","Q","R","S","T","U","V","W","X","Y","Z">>
LowerCase == <<"a","b","c","d","e","f","g","h","i","j","k","l","m",
               "n","o","p","q","r","s","t","u","v","w","x","y","z">>

ToLower(s) ==
    [k \in 1..Len(s) |->
        IF \E n \in 1..26 : UpperCase[n] = s[k]
        THEN LowerCase[CHOOSE n \in 1..26 : UpperCase[n] = s[k]]
        ELSE s[k]]

(***************************************************************************)
(* processZipFile.  An archive is given by the entries parseZipEntries     *)
(* returns for it, each with the result of decodeZipEntry on it: null, an  *)
(* exception of inflateRawSync, or text.  The text of an entry is a token: *)
(* "" the empty string, "S0" a CSV without data rows, "S3" a CSV with the  *)
(* three rows of SummaryRows.                                              *)
(***************************************************************************)
MaxArchiveEntries == 3

NameW1 == <<"W","o","r","k","o","u","t","s","-","1",".","c","s","v">>
NameW2 == <<"d","/","W","o","r","k","o","u","t","s","-","2",".","c","s","v">>
NameD1 == <<"d","/","R","-","H","-","T",".","c","s","v">>
NameG1 == <<"R","-","r","-","T",".","g","p","x">>
NameX  == <<"n",".","t","x","t">>

SummaryPrefix == <<"W","o","r","k","o","u","t","s","-">>
DotCsv == <<".","c","s","v">>
DotGpx == <<".","g","p","x">>

Null == [kind |-> "null", text |-> ""]
Throws == [kind |-> "throw", text |-> ""]
Text(t) == [kind |-> "text", text |-> t]

ArchiveEntryChoices ==
    { [name |-> NameW1, decode |-> d] : d \in {Text("S3"), Text("S0"), Text(""), Null, Throws} }
    \cup { [name |-> NameW2, decode |-> Text("S3")] }
    \cup { [name |-> NameD1, decode |-> d] : d \in {Text("S3"), Text(""), Null, Throws} }
    \cup { [name |-> NameG1, decode |-> Text("S3")] }
    \cup { [name |-> NameX, decode |-> Text("S3")] }

ZipFiles == UNION { [1..n -> ArchiveEntryChoices] : n \in 0..MaxArchiveEntries }

NotePaths == {"p1", "p2"}

\* parseWorkoutCsvRows on the summary text, each row with what
\* createWorkoutFromCsvRecord and generateWorkoutFilePath make of it:
\* ok = FALSE for a row that normalises to null, path = the note path.
SummaryRows(text) ==
    IF text = "S3"
    THEN << [ok |-> TRUE, path |-> "p1"], [ok |-> FALSE, path |-> ""],
            [ok |-> TRUE, path |-> "p2"] >>
    ELSE <<>>

\* const baseName = entry.name.split("/").pop() ?? entry.name
BaseName(name) == Last(Split(name, "/"))

IsSummaryName(baseName) == StartsWith(baseName, SummaryPrefix) /\ EndsWith(baseName, DotCsv)

IsDetailName(baseName) == EndsWith(baseName, DotCsv) \/ EndsWith(baseName, DotGpx)

\* mutant of SummaryAfter: an entry that does not decode to text is passed
\* over in favour of the summary held before
SummaryAfterSkippingUndecodable(held, k) ==
    IF zipFile[k].decode.kind = "text" THEN k ELSE held

\* mutant of SummaryAfter: the first match is kept
SummaryAfterKeepFirst(held, k) == IF held = 0 THEN k ELSE held

\* line 548: summaryEntry = entry, whatever was held before
SummaryAfter(held, k) == k

IngestInit ==
    /\ zipFile \in ZipFiles
    /\ vault \in { {}, {"p1"} }
    /\ ppc = "read"
    /\ idx = 1
    /\ summaryEntry = 0
    /\ detailEntries = <<>>
    /\ rows = <<>>
    /\ rowIdx = 1
    /\ created = <<>>
    /\ correlated = <<>>
    /\ saved = <<>>
    /\ deleteOnSuccess = FALSE
    /\ removed = FALSE
    /\ caught = FALSE

\* line 532-534: adapter.readBinary either delivers the bytes or rejects
ReadBinary ==
    /\ ppc = "read"
    /\ \/ ppc' = "classify" /\ UNCHANGED caught
       \/ ppc' = "finally" /\ caught' = TRUE
    /\ UNCHANGED <<zipFile, vault, idx, summaryEntry, detailEntries, rows, rowIdx,
                   created, correlated, saved, deleteOnSuccess, removed>>

\* lines 542-567: one iteration of the loop over the entries
ClassifyStep ==
    /\ ppc = "classify"
    /\ idx <= Len(zipFile)
    /\ LET entry == zipFile[idx]
           baseName == BaseName(entry.name)
       IN
       IF IsSummaryName(baseName) THEN
            /\ summaryEntry' = SummaryAfter(summaryEntry, idx)
            /\ idx' = idx + 1
            /\ UNCHANGED <<detailEntries, ppc, caught>>
       ELSE IF IsDetailName(baseName) THEN
            IF entry.decode.kind = "throw" THEN
                /\ ppc' = "finally"
                /\ caught' = TRUE
                /\ UNCHANGED <<summaryEntry, detailEntries, idx>>
            ELSE
                /\ detailEntries' =
                    IF entry.decode.kind = "text" /\ entry.decode.text # ""
                    THEN Append(detailEntries,
                                [entry |-> idx, name |-> baseName, csvText |-> entry.decode.text])
                    ELSE detailEntries
                /\ idx' = idx + 1
                /\ UNCHANGED <<summaryEntry, ppc, caught>>
       ELSE
            /\ idx' = idx + 1
            /\ UNCHANGED <<summaryEntry, detailEntries, ppc, caught>>
    /\ UNCHANGED <<zipFile, vault, rows, rowIdx, created, correlated, saved, deleteOnSuccess, removed>>

\* lines 572-588: the summary is decoded and parsed once the loop is over
SummaryStep ==
    /\ ppc = "classify"
    /\ idx > Len(zipFile)
    /\ IF summaryEntry = 0 THEN
            /\ ppc' = "finally"
            /\ UNCHANGED <<rows, caught>>
       ELSE LET d == zipFile[summaryEntry].decode IN
            IF d.kind = "throw" THEN
                /\ ppc' = "finally"
                /\ caught' = TRUE
                /\ UNCHANGED rows
            ELSE IF d.kind = "null" \/ d.text = "" THEN
                /\ ppc' = "finally"
                /\ UNCHANGED <<rows, caught>>
            ELSE
                /\ rows' = SummaryRows(d.text)
                /\ ppc' = IF SummaryRows(d.text) = <<>> THEN "finally" ELSE "import"
                /\ UNCHANGED caught
    /\ UNCHANGED <<zipFile, vault, idx, summaryEntry, detailEntries, rowIdx, created, correlated, saved,
                   deleteOnSuccess, removed>>

\* mutant of NextRow: the rows are taken from the end
NextRowFromEnd(rs, k) == rs[Len(rs) + 1 - k]

\* line 614: for (const record of rows)
NextRow(rs, k) == rs[k]

\* mutant of CorrelatedAgainst: only the first detail entry is passed
CorrelatedAgainstFirstOnly(detail) ==
    IF detail = <<>> THEN detail ELSE <<detail[1]>>

\* line 635: the detailEntries array itself is passed
CorrelatedAgainst(detail) == detail

\* mutant of NoteExists: no note is ever found
NoteExistsNever(path, notes) == FALSE

\* line 626: this.app.vault.getAbstractFileByPath(notePath)
NoteExists(path, notes) == path \in notes

\* lines 614-662: one iteration of the loop of importCsvRowsWithDetailData.
\* settings.saveDetailData is read at line 633 (extracts) and again at line
\* 647 after the await; importer.processWorkout creates the note or rejects;
\* saveWorkoutDetailData saves or fails, and its failure is caught at line 651.
ImportRow ==
    /\ ppc = "import"
    /\ rowIdx <= Len(rows)
    /\ LET row == NextRow(rows, rowIdx) IN
        IF ~row.ok \/ NoteExists(row.path, vault) THEN
            /\ rowIdx' = rowIdx + 1
            /\ UNCHANGED <<vault, created, correlated, saved, ppc, caught>>
        ELSE \E extracts \in BOOLEAN :
            /\ correlated' =
                IF extracts
                THEN Append(correlated, [path |-> row.path,
                                         against |-> CorrelatedAgainst(detailEntries)])
                ELSE correlated
            /\ \/ /\ vault' = vault \cup {row.path}
                  /\ created' = Append(created, row.path)
                  /\ \E saves \in BOOLEAN :
                        saved' = IF extracts /\ saves THEN Append(saved, row.path) ELSE saved
                  /\ rowIdx' = rowIdx + 1
                  /\ UNCHANGED <<ppc, caught>>
               \/ /\ ppc' = "finally"
                  /\ caught' = TRUE
                  /\ UNCHANGED <<vault, created, saved, rowIdx>>
    /\ UNCHANGED <<zipFile, idx, summaryEntry, detailEntries, rows, deleteOnSuccess, removed>>

\* lines 591-592: the import returned
ImportDone ==
    /\ ppc = "import"
    /\ rowIdx > Len(rows)
    /\ deleteOnSuccess' = TRUE
    /\ ppc' = "finally"
    /\ UNCHANGED <<zipFile, vault, idx, summaryEntry, detailEntries, rows, rowIdx,
                   created, correlated, saved, removed, caught>>

\* mutant of RemoveAfter: the archive is removed whatever happened
RemoveAfterAlways(deleteFlag) == TRUE

\* line 597: if (deleteOnSuccess)
RemoveAfter(deleteFlag) == deleteFlag

\* lines 596-604: adapter.remove removes the archive, or rejects and the
\* rejection is caught at line 600
Finally ==
    /\ ppc = "finally"
    /\ \E removeRejects \in BOOLEAN :
        removed' = (RemoveAfter(deleteOnSuccess) /\ ~removeRejects)
    /\ ppc' = "done"
    /\ UNCHANGED <<zipFile, vault, idx, summaryEntry, detailEntries, rows, rowIdx,
                   created, correlated, saved, deleteOnSuccess, caught>>

\* lines 258-261: an archive that was not removed is still in the watch folder
\* and the next scan calls processZipFile on it again, with the vault as the
\* run before left it
Reprocess ==
    /\ ppc = "done"
    /\ ~removed
    /\ ppc' = "read"
    /\ idx' = 1
    /\ summaryEntry' = 0
    /\ detailEntries' = <<>>
    /\ rows' = <<>>
    /\ rowIdx' = 1
    /\ created' = <<>>
    /\ correlated' = <<>>
    /\ saved' = <<>>
    /\ deleteOnSuccess' = FALSE
    /\ caught' = FALSE
    /\ UNCHANGED <<zipFile, vault, removed>>

(***************************************************************************)
(* More of the platform's string and number operations.                    *)
(***************************************************************************)
WhiteSpace == {" ", "\t", "\n", "\r"}

RECURSIVE TrimStart(_)
TrimStart(s) == IF s # <<>> /\ Head(s) \in WhiteSpace THEN TrimStart(Tail(s)) ELSE s

RECURSIVE TrimEnd(_)
TrimEnd(s) ==
    IF s # <<>> /\ s[Len(s)] \in WhiteSpace THEN TrimEnd(SubSeq(s, 1, Len(s) - 1)) ELSE s

\* String.prototype.trim
Trim(s) == TrimEnd(TrimStart(s))

Digits == {"0", "1", "2", "3", "4", "5", "6", "7", "8", "9"}

DigitValue(c) ==
    CASE c = "0" -> 0 [] c = "1" -> 1 [] c = "2" -> 2 [] c = "3" -> 3 [] c = "4" -> 4
      [] c = "5" -> 5 [] c = "6" -> 6 [] c = "7" -> 7 [] c = "8" -> 8 [] c = "9" -> 9

\* the longest prefix of s made of digits
RECURSIVE DigitPrefix(_)
DigitPrefix(s) ==
    IF s # <<>> /\ Head(s) \in Digits THEN <<Head(s)>> \o DigitPrefix(Tail(s)) ELSE <<>>

RECURSIVE DigitsValue(_)
DigitsValue(ds) ==
    IF ds = <<>> THEN 0 ELSE DigitsValue(SubSeq(ds, 1, Len(ds) - 1)) * 10 + DigitValue(ds[Len(ds)])

\* A numeric value is NaN, undefined, or a number given in thousandths.
NaN == [kind |-> "NaN", milli |-> 0]
Num(milli) == [kind |-> "number", milli |-> milli]
Undefined == [kind |-> "undefined", milli |-> 0]

\* undefined where a string is expected (an array element past the end, a
\* missing record field): a sequence no text is equal to
NoString == <<"undefined">>

\* the first three fraction digits, as thousandths
FractionMilli(ds) ==
    LET d == [k \in 1..3 |-> IF k <= Len(ds) THEN DigitValue(ds[k]) ELSE 0]
    IN  d[1] * 100 + d[2] * 10 + d[3]

(***************************************************************************)
(* parseFloat: leading white space, an optional sign, digits with an       *)
(* optional fraction.  Exponents and "Infinity" are not among the inputs   *)
(* of the model.  parseFloat(undefined) is NaN.                            *)
(***************************************************************************)
parseFloat(v) ==
    IF v = NoString THEN NaN
    ELSE
    LET t == TrimStart(v)
        neg == t # <<>> /\ Head(t) = "-"
        u == IF t # <<>> /\ Head(t) \in {"-", "+"} THEN Tail(t) ELSE t
        int == DigitPrefix(u)
        rest == SubSeq(u, Len(int) + 1, Len(u))
        frac == IF rest # <<>> /\ Head(rest) = "." THEN DigitPrefix(Tail(rest)) ELSE <<>>
        magnitude == DigitsValue(int) * 1000 + FractionMilli(frac)
    IN  IF int = <<>> /\ frac = <<>> THEN NaN
        ELSE Num(IF neg THEN 0 - magnitude ELSE magnitude)

\* parseInt(v, 10): leading white space, an optional sign, digits
parseInt(v) ==
    LET t == TrimStart(v)
        neg == t # <<>> /\ Head(t) = "-"
        u == IF t # <<>> /\ Head(t) \in {"-", "+"} THEN Tail(t) ELSE t
        int == DigitPrefix(u)
    IN  IF int = <<>> THEN NaN
        ELSE Num(IF neg THEN 0 - DigitsValue(int) * 1000 ELSE DigitsValue(int) * 1000)

\* mutant of OrUndefined: a value that is not a number becomes 0
OrUndefinedNaNAsZero(x) ==
    IF x.kind = "NaN" THEN Num(0) ELSE IF x.milli = 0 THEN Undefined ELSE x

\* x || undefined, for a number x: NaN and 0 are falsy
OrUndefined(x) == IF x.kind = "NaN" \/ x.milli = 0 THEN Undefined ELSE x

\* values[k] with k counted from 0: undefined past the end of the array
At(values, k) == IF k + 1 <= Len(values) THEN values[k + 1] ELSE NoString

(***************************************************************************)
(* parseCsvLine (lines 886-910).                                           *)
(***************************************************************************)
RECURSIVE CsvScan(_, _, _, _, _)
CsvScan(line, k, current, inQuotes, values) ==
    IF k > Len(line) THEN Append(values, current)
    ELSE LET char == line[k] IN
        IF char = "\"" THEN
            IF inQuotes /\ k + 1 <= Len(line) /\ line[k + 1] = "\""
            THEN CsvScan(line, k + 2, Append(current, "\""), inQuotes, values)
            ELSE CsvScan(line, k + 1, current, ~inQuotes, values)
        ELSE IF char = "," /\ ~inQuotes
        THEN CsvScan(line, k + 1, <<>>, inQuotes, Append(values, current))
        ELSE CsvScan(line, k + 1, Append(current, char), inQuotes, values)

\* mutant of parseCsvLine: the line is cut at every comma
parseCsvLineAtEveryComma(line) ==
    LET values == Split(line, ",")
    IN  [k \in 1..Len(values) |-> Trim(values[k])]

parseCsvLine(line) ==
    LET values == CsvScan(line, 1, <<>>, FALSE, <<>>)
    IN  [k \in 1..Len(values) |-> Trim(values[k])]

(***************************************************************************)
(* parseCsvLine run on its own: every line of at most MaxLineLen           *)
(* characters over LineChars, and the two lines the documentation quotes.  *)
(***************************************************************************)
MaxLineLen == 5

LineChars == {"a", ",", "\"", " "}

QuotedCommaLine == <<"a",",","\"","b",",","c","\"",",","d">>  \* a,"b,c",d
DoubledQuoteLine == <<"a",",","\"","b","\"","\"","c","\"",",","d">>  \* a,"b""c",d

TokenizerLines ==
    UNION { [1..n -> LineChars] : n \in 0..MaxLineLen }
        \cup { QuotedCommaLine, DoubledQuoteLine }

LineInit ==
    /\ lineArg \in TokenizerLines
    /\ tpc = "call"
    /\ fields = <<>>

\* lines 886-910
TokenizeLine ==
    /\ tpc = "call"
    /\ fields' = parseCsvLine(lineArg)
    /\ tpc' = "returned"
    /\ UNCHANGED lineArg

(***************************************************************************)
(* parseDetailCsv (lines 746-781), one action per data line.               *)
(***************************************************************************)
MaxDataLines == 2

HeaderMinMaxAvg == <<"T",",","M","i","n",",","M","a","x",",","A","v","g">>  \* T,Min,Max,Avg
HeaderLowerMin == <<"T",",","m","i","n">>  \* T,min
HeaderValue == <<"T",",","V","a","l","u","e","\r">>  \* T,Value\r
HeaderLowerValue == <<"T",",","v","a","l","u","e">>  \* T,value
HeaderUpperMin == <<"T",",","M","I","N",",","V","a","l","u","e">>  \* T,MIN,Value
HeaderLongMin == <<"T",",","M","i","n"," ","b",",","V","a","l","u","e">>  \* T,Min b,Value
HeaderLongValue == <<"T",",","V","a","l","u","e"," ","k">>  \* T,Value k
HeaderNeither == <<"T",",","X">>  \* T,X
HeaderSpacedMin == <<"T",","," ","M","i","n"," ",",","V","a","l","u","e">>  \* T, Min ,Value
RowFull == <<"1",",","6","0",",","8","0",",","7","0">>  \* 1,60,80,70
RowZero == <<"2",",","0",",","5">>  \* 2,0,5
RowBad == <<"3",",","x",",","8",".","5",",","9">>  \* 3,x,8.5,9
RowShort == <<"4">>  \* 4
RowTwo == <<"5",",","7">>  \* 5,7

HeaderLines == { HeaderMinMaxAvg, HeaderLowerMin, HeaderValue, HeaderLowerValue, HeaderUpperMin, HeaderLongMin, HeaderLongValue, HeaderNeither, HeaderSpacedMin }

DataLines == { RowFull, RowZero, RowBad, RowShort, RowTwo }

DataLineLists == UNION { [1..n -> DataLines] : n \in 0..MaxDataLines }

SeriesTexts ==
    { Join(<<h>> \o ds, "\n") \o tail :
        h \in HeaderLines, ds \in DataLineLists, tail \in {<<>>, <<"\n">>} }
    \cup { <<>>, <<" ", "\n">> }

\* mutant of HeaderIncludes: String.prototype.includes on each column title
HeaderMentions(hdr, word) == \E k \in 1..Len(hdr) : IndexOf(hdr[k], word) # -1

\* Array.prototype.includes on the tokenized header
HeaderIncludes(hdr, word) == \E k \in 1..Len(hdr) : hdr[k] = word

WordMin == <<"M","i","n">>
WordLowerMin == <<"m","i","n">>
WordValue == <<"V","a","l","u","e">>
WordLowerValue == <<"v","a","l","u","e">>

\* lines 764-775: which branch the header selects
SeriesLayout(hdr) ==
    IF HeaderIncludes(hdr, WordMin) \/ HeaderIncludes(hdr, WordLowerMin) THEN "minMaxAvg"
    ELSE IF HeaderIncludes(hdr, WordValue) \/ HeaderIncludes(hdr, WordLowerValue) THEN "value"
    ELSE "minMaxAvg"

\* mutant of SeriesPoint: the layout is taken from the width of the row
SeriesPointByRowWidth(hdr, values) ==
    IF Len(values) = 2
    THEN [timestamp |-> values[1],
          value |-> OrUndefined(parseFloat(At(values, 1)))]
    ELSE [timestamp |-> values[1],
          min |-> OrUndefined(parseFloat(At(values, 1))),
          max |-> OrUndefined(parseFloat(At(values, 2))),
          avg |-> OrUndefined(parseFloat(At(values, 3)))]

\* lines 759-775: the point made of one tokenized data line
SeriesPoint(hdr, values) ==
    IF SeriesLayout(hdr) = "value"
    THEN [timestamp |-> values[1],
          value |-> OrUndefined(parseFloat(At(values, 1)))]
    ELSE [timestamp |-> values[1],
          min |-> OrUndefined(parseFloat(At(values, 1))),
          max |-> OrUndefined(parseFloat(At(values, 2))),
          avg |-> OrUndefined(parseFloat(At(values, 3)))]

\* lines 746-781 as one call
parseDetailCsv(text) ==
    LET ls == Split(Trim(text), "\n")
        hdr == parseCsvLine(ls[1])
        upTo[k \in 1..Len(ls)] ==
            IF k = 1 THEN <<>>
            ELSE LET values == parseCsvLine(ls[k])
                 IN  IF Len(values) < 2 THEN upTo[k - 1]
                     ELSE Append(upTo[k - 1], SeriesPoint(hdr, values))
    IN  IF Len(ls) < 2 THEN <<>> ELSE upTo[Len(ls)]

SeriesInit ==
    /\ csvText \in SeriesTexts
    /\ spc = "start"
    /\ lines = <<>>
    /\ header = <<>>
    /\ lineNo = 1
    /\ dataPoints = <<>>

\* lines 747-751
SeriesStart ==
    /\ spc = "start"
    /\ LET ls == Split(Trim(csvText), "\n") IN
        /\ lines' = ls
        /\ IF Len(ls) < 2
           THEN spc' = "done" /\ UNCHANGED header
           ELSE spc' = "rows" /\ header' = parseCsvLine(ls[1])
    /\ UNCHANGED <<csvText, lineNo, dataPoints>>

\* mutant of SeriesRow: a line of fewer than two fields gives a point too
SeriesRowKeepingShort ==
    /\ spc = "rows"
    /\ lineNo < Len(lines)
    /\ dataPoints' = Append(dataPoints, SeriesPoint(header, parseCsvLine(lines[lineNo + 1])))
    /\ lineNo' = lineNo + 1
    /\ UNCHANGED <<csvText, spc, lines, header>>

\* lines 755-778: one iteration, lineNo being the 0-based index i
SeriesRow ==
    /\ spc = "rows"
    /\ lineNo < Len(lines)
    /\ LET values == parseCsvLine(lines[lineNo + 1]) IN
        dataPoints' = IF Len(values) < 2 THEN dataPoints
                      ELSE Append(dataPoints, SeriesPoint(header, values))
    /\ lineNo' = lineNo + 1
    /\ UNCHANGED <<csvText, spc, lines, header>>

\* line 780
SeriesReturn ==
    /\ spc = "rows"
    /\ lineNo >= Len(lines)
    /\ spc' = "done"
    /\ UNCHANGED <<csvText, lines, header, lineNo, dataPoints>>

(***************************************************************************)
(* Date.  An instant is [kind |-> "date", ms |-> n], n the milliseconds    *)
(* since 2024-09-01T00:00:00 local time; the local zone is taken to be     *)
(* -07:00, the zone the export writes.  new Date(text) is modelled for the *)
(* layout YYYY-MM-DDTHH:MM:SS with or without " -0700", for the days 1-24  *)
(* of September 2024 (beyond them the count leaves 32 bits); every other   *)
(* text the model feeds it is one the platform rejects.                    *)
(***************************************************************************)
InvalidDate == [kind |-> "invalid", ms |-> 0]
Date(ms) == [kind |-> "date", ms |-> ms]
NoDate == [kind |-> "undefined", ms |-> 0]

ZoneSuffix == <<" ","-","0","7","0","0">>

TwoDigits(s, k) ==
    IF s[k] \in Digits /\ s[k + 1] \in Digits
    THEN DigitValue(s[k]) * 10 + DigitValue(s[k + 1]) ELSE -1

HasDateLayout(s) ==
    /\ Len(s) >= 19
    /\ SubSeq(s, 19 + 1, Len(s)) \in {<<>>, ZoneSuffix}
    /\ \A k \in {1, 2, 3, 4} : s[k] \in Digits
    /\ s[5] = "-" /\ s[8] = "-" /\ s[11] = "T" /\ s[14] = ":" /\ s[17] = ":"
    /\ \A k \in {6, 9, 12, 15, 18} : TwoDigits(s, k) # -1

NewDate(s) ==
    IF ~HasDateLayout(s) THEN InvalidDate
    ELSE LET day == TwoDigits(s, 9)
             hour == TwoDigits(s, 12)
             minute == TwoDigits(s, 15)
             second == TwoDigits(s, 18)
         IN  IF SubSeq(s, 1, 7) # <<"2","0","2","4","-","0","9">>
                \/ day < 1 \/ day > 24 \/ hour > 23 \/ minute > 59 \/ second > 59
             THEN InvalidDate
             ELSE Date(((((day - 1) * 24 + hour) * 60 + minute) * 60 + second) * 1000)

\* Math.round on a number given in thousandths: halves go up
MathRound(milli) == ((milli + 500) \div 1000) * 1000

(***************************************************************************)
(* createWorkoutFromCsvRecord (lines 912-975) and its helpers.             *)
(***************************************************************************)
\* mutant of OptionalTrim: the field is used as it stands
OptionalNoTrim(v) == v

\* record[key]?.trim()
OptionalTrim(v) == IF v = NoString THEN NoString ELSE Trim(v)

\* !value for a string that may be undefined
Falsy(v) == v = NoString \/ v = <<>>

\* lines 977-989
parseDateTime(value) ==
    IF Falsy(value) THEN NoDate
    ELSE LET normalized == ReplaceFirst(Trim(value), <<" ">>, <<"T">>)
             date == NewDate(normalized)
         IN  IF date.kind = "invalid" THEN NoDate ELSE date

RECURSIVE Accumulate(_, _)
Accumulate(parts, total) ==
    IF parts = <<>> THEN total
    ELSE Accumulate(Tail(parts), total * 60 + Head(parts).milli)

\* lines 991-1002
parseDurationToSeconds(value) ==
    IF Falsy(value) THEN Undefined
    ELSE LET texts == Split(value, ":")
             parts == [k \in 1..Len(texts) |-> parseInt(texts[k])]
         IN  IF \E k \in 1..Len(parts) : parts[k].kind = "NaN" THEN Undefined
             ELSE Num(Accumulate(parts, 0))

\* lines 1004-1011
parseNumber(value) ==
    IF Falsy(value) THEN Undefined
    ELSE LET parsed == parseFloat(value)
         IN  IF parsed.kind = "number" THEN parsed ELSE Undefined

\* mutant of ResolveDuration: a parsed End is preferred to the Duration field
ResolveDurationEndFirst(explicit, startDate, endDate) ==
    IF endDate.kind = "date" THEN Num(MathRound(endDate.ms - startDate.ms))
    ELSE IF explicit.kind = "undefined" THEN Num(0) ELSE explicit

\* lines 925-933: durationSeconds, then durationSeconds ?? 0
ResolveDuration(explicit, startDate, endDate) ==
    IF explicit.kind = "undefined" /\ endDate.kind = "date"
    THEN Num(MathRound(endDate.ms - startDate.ms))
    ELSE IF explicit.kind = "undefined" THEN Num(0) ELSE explicit

NullWorkout == [kind |-> "null"]

\* the result, or "RangeError" where startDate.toISOString() would throw
createWorkoutFromCsvRecord(rec) ==
    LET workoutType == OptionalTrim(rec.WorkoutType)
        startString == OptionalTrim(rec.Start)
    IN  IF Falsy(workoutType) \/ Falsy(startString) THEN NullWorkout
        ELSE LET startDate == parseDateTime(startString) IN
            IF startDate.kind = "undefined" THEN NullWorkout
            ELSE IF startDate.kind # "date" THEN [kind |-> "RangeError"]
            ELSE LET endDate == parseDateTime(OptionalTrim(rec.End))
                     durationSeconds == parseDurationToSeconds(OptionalTrim(rec.Duration))
                 IN  [kind |-> "workout",
                      name |-> workoutType,
                      start |-> startDate,
                      end |-> endDate,
                      duration |-> ResolveDuration(durationSeconds, startDate, endDate),
                      metadata |-> [source |-> "csv"],
                      location |-> IF Falsy(OptionalTrim(rec.Location)) THEN NoString
                                   ELSE OptionalTrim(rec.Location),
                      distance |-> parseNumber(rec.Distance),
                      avgHeartRate |-> parseNumber(rec.AvgHeartRate),
                      sourceCsv |-> rec]

TypeRun == <<"R","u","n">>  \* "Run"
TypePadded == <<" ","R","u","n"," ">>  \* " Run "
Blank == <<" ">>  \* " "
StartText == <<"2","0","2","4","-","0","9","-","0","2"," ","1","3",":","5","2",":","0","8"," ","-","0","7","0","0">>  \* "2024-09-02 13:52:08 -0700"
EarlierText == <<"2","0","2","4","-","0","9","-","0","2"," ","1","3",":","5","0",":","0","0"," ","-","0","7","0","0">>  \* "2024-09-02 13:50:00 -0700"
LaterText == <<"2","0","2","4","-","0","9","-","0","2"," ","1","4",":","3","7",":","3","8"," ","-","0","7","0","0">>  \* "2024-09-02 14:37:38 -0700"
Garbage == <<"a","b","c">>  \* "abc"
DurationHms == <<"0",":","4","5",":","3","0">>  \* "0:45:30"
DurationMs == <<"4","5",":","3","0">>  \* "45:30"
DurationSigned == <<"-","1",":","3","0">>  \* "-1:30"
DurationBadPart == <<"1",":","x","x">>  \* "1:xx"
DurationZero == <<"0">>  \* "0"
NumberText == <<"3",".","1">>  \* "3.1"

SummaryRecords ==
    [ WorkoutType : {NoString, <<>>, Blank, TypeRun, TypePadded},
      Start : {NoString, <<>>, Garbage, StartText},
      End : {NoString, <<>>, Garbage, EarlierText, LaterText},
      Duration : {NoString, <<>>, Garbage, DurationHms, DurationMs, DurationSigned,
                  DurationBadPart, DurationZero},
      Location : {NoString, Blank},
      Distance : {NoString, NumberText},
      AvgHeartRate : {Garbage, NumberText} ]

WorkoutInit ==
    /\ record \in SummaryRecords
    /\ wpc = "call"
    /\ workout = NullWorkout

CreateWorkout ==
    /\ wpc = "call"
    /\ LET w == createWorkoutFromCsvRecord(record) IN
        IF w.kind = "RangeError"
        THEN wpc' = "threw" /\ UNCHANGED workout
        ELSE wpc' = "returned" /\ workout' = w
    /\ UNCHANGED record

(***************************************************************************)
(* extractDetailDataForWorkout (lines 667-744) and parseHealthTimestamp    *)
(* (lines 783-798).  workout.start is an ISO string in the code; the model *)
(* keeps the instant new Date(workout.start) denotes.                      *)
(***************************************************************************)
MaxDetailFiles == 2
MatchTolerance == 5000

NullDate == [kind |-> "null", ms |-> 0]

Abs(n) == IF n < 0 THEN -n ELSE n

\* lines 783-798
parseHealthTimestamp(timestamp) ==
    IF Len(timestamp) # 15 THEN NullDate
    ELSE LET year == SubSeq(timestamp, 1, 4)
             month == SubSeq(timestamp, 5, 6)
             day == SubSeq(timestamp, 7, 8)
             hour == SubSeq(timestamp, 10, 11)
             minute == SubSeq(timestamp, 12, 13)
             second == SubSeq(timestamp, 14, 15)
             dateStr == year \o <<"-">> \o month \o <<"-">> \o day \o <<"T">>
                        \o hour \o <<":">> \o minute \o <<":">> \o second
             date == NewDate(dateStr)
         IN  IF date.kind = "invalid" THEN NullDate ELSE date

\* line 692: parts.slice(0, -2).join("-")
FileWorkoutType(parts) == Join(SubSeq(parts, 1, Len(parts) - 2), "-")

\* line 693
DataType(parts) == parts[Len(parts) - 1]

\* line 694
Timestamp(parts) == ReplaceFirst(ReplaceFirst(Last(parts), DotCsv, <<>>), DotGpx, <<>>)

\* mutant of SameType: the comparison ignores letter case
SameTypeIgnoringCase(fileWorkoutType, workoutType) ==
    ToLower(fileWorkoutType) = ToLower(workoutType)

\* line 697, negated: fileWorkoutType === workoutType
SameType(fileWorkoutType, workoutType) == fileWorkoutType = workoutType

\* mutant of TimestampMismatch: a difference of exactly the tolerance mismatches
TimestampMismatchAtTolerance(workoutStart, fileTimestamp) ==
    /\ fileTimestamp.kind = "date"
    /\ workoutStart.kind = "date"
    /\ Abs(workoutStart.ms - fileTimestamp.ms) >= MatchTolerance

\* mutant of TimestampMismatch: an unparsed file timestamp mismatches
TimestampMismatchOrUnparsed(workoutStart, fileTimestamp) ==
    \/ fileTimestamp.kind # "date"
    \/ /\ workoutStart.kind = "date"
       /\ Abs(workoutStart.ms - fileTimestamp.ms) > MatchTolerance

\* line 702: fileTimestamp && Math.abs(...) > 5000; with an invalid
\* workoutStart the difference is NaN and the comparison false
TimestampMismatch(workoutStart, fileTimestamp) ==
    /\ fileTimestamp.kind = "date"
    /\ workoutStart.kind = "date"
    /\ Abs(workoutStart.ms - fileTimestamp.ms) > MatchTolerance

TypeHyphen == <<"A","-","R","u","n">>  \* "A-Run"
MetricHeartRate == <<"H","e","a","r","t"," ","R","a","t","e">>  \* "Heart Rate"
MetricActiveEnergy == <<"A","c","t","i","v","e"," ","E","n","e","r","g","y">>  \* "Active Energy"
MetricRestingEnergy == <<"R","e","s","t","i","n","g"," ","E","n","e","r","g","y">>  \* "Resting Energy"
MetricDistance == <<"W","a","l","k","i","n","g"," ","+"," ","R","u","n","n","i","n","g"," ","D","i","s","t","a","n","c","e">>  \* "Walking + Running Distance"
MetricStepCount == <<"S","t","e","p"," ","C","o","u","n","t">>  \* "Step Count"
MetricRecovery == <<"H","e","a","r","t"," ","R","a","t","e"," ","R","e","c","o","v","e","r","y">>  \* "Heart Rate Recovery"
NameHeartRate == <<"R","u","n","-","H","e","a","r","t"," ","R","a","t","e","-","2","0","2","4","0","9","0","2","_","1","3","5","2","0","8",".","c","s","v">>  \* "Run-Heart Rate-20240902_135208.csv"
NameActiveEnergy == <<"R","u","n","-","A","c","t","i","v","e"," ","E","n","e","r","g","y","-","2","0","2","4","0","9","0","2","_","1","3","5","2","0","8",".","c","s","v">>  \* "Run-Active Energy-20240902_135208.csv"
NameLowerType == <<"r","u","n","-","H","e","a","r","t"," ","R","a","t","e","-","2","0","2","4","0","9","0","2","_","1","3","5","2","0","8",".","c","s","v">>  \* "run-Heart Rate-20240902_135208.csv"
NameHyphenType == <<"A","-","R","u","n","-","S","t","e","p"," ","C","o","u","n","t","-","2","0","2","4","0","9","0","2","_","1","3","5","2","0","8",".","c","s","v">>  \* "A-Run-Step Count-20240902_135208.csv"
NameTwoParts == <<"R","u","n","-","2","0","2","4","0","9","0","2","_","1","3","5","2","0","8",".","c","s","v">>  \* "Run-20240902_135208.csv"
NameShortStamp == <<"R","u","n","-","H","e","a","r","t"," ","R","a","t","e","-","2","0","2","4","0","9","0","_","1","3","5","2","0","8",".","c","s","v">>  \* "Run-Heart Rate-2024090_135208.csv"
NameBadStamp == <<"R","u","n","-","A","c","t","i","v","e"," ","E","n","e","r","g","y","-","2","0","2","4","0","9","0","2","_","1","3","5","2","x","x",".","c","s","v">>  \* "Run-Active Energy-20240902_1352xx.csv"
NameRoute == <<"R","u","n","-","R","o","u","t","e","-","2","0","2","4","0","9","0","2","_","1","3","5","2","0","8",".","g","p","x">>  \* "Run-Route-20240902_135208.gpx"
NameOtherMetric == <<"R","u","n","-","C","a","d","e","n","c","e","-","2","0","2","4","0","9","0","2","_","1","3","5","2","0","8",".","c","s","v">>  \* "Run-Cadence-20240902_135208.csv"
NameGpxHeartRate == <<"R","u","n","-","H","e","a","r","t"," ","R","a","t","e","-","2","0","2","4","0","9","0","2","_","1","3","5","2","0","8",".","g","p","x">>  \* "Run-Heart Rate-20240902_135208.gpx"
GpxText == <<"<","g","p","x","/",">">>  \* "<gpx/>"

NoSeries == [set |-> FALSE, series |-> <<>>]
SomeSeries(s) == [set |-> TRUE, series |-> s]
NoRoute == [set |-> FALSE, text |-> <<>>]

\* mutant of WithSeries: a slot already filled keeps its series
WithSeriesKeepFirst(data, dataType, series) ==
    IF dataType = MetricHeartRate /\ ~data.heartRate.set
    THEN [data EXCEPT !.heartRate = SomeSeries(series)]
    ELSE IF dataType = MetricActiveEnergy /\ ~data.activeEnergy.set
    THEN [data EXCEPT !.activeEnergy = SomeSeries(series)]
    ELSE IF dataType = MetricRestingEnergy /\ ~data.restingEnergy.set
    THEN [data EXCEPT !.restingEnergy = SomeSeries(series)]
    ELSE IF dataType = MetricDistance /\ ~data.distance.set
    THEN [data EXCEPT !.distance = SomeSeries(series)]
    ELSE IF dataType = MetricStepCount /\ ~data.stepCount.set
    THEN [data EXCEPT !.stepCount = SomeSeries(series)]
    ELSE IF dataType = MetricRecovery /\ ~data.heartRateRecovery.set
    THEN [data EXCEPT !.heartRateRecovery = SomeSeries(series)]
    ELSE data

\* mutant of WithSeries: a metric outside the table lands in the heart-rate slot
WithSeriesDefaultingToHeartRate(data, dataType, series) ==
    IF dataType = MetricActiveEnergy THEN [data EXCEPT !.activeEnergy = SomeSeries(series)]
    ELSE IF dataType = MetricRestingEnergy THEN [data EXCEPT !.restingEnergy = SomeSeries(series)]
    ELSE IF dataType = MetricDistance THEN [data EXCEPT !.distance = SomeSeries(series)]
    ELSE IF dataType = MetricStepCount THEN [data EXCEPT !.stepCount = SomeSeries(series)]
    ELSE IF dataType = MetricRecovery THEN [data EXCEPT !.heartRateRecovery = SomeSeries(series)]
    ELSE [data EXCEPT !.heartRate = SomeSeries(series)]

\* lines 718-737: the switch on dataType
WithSeries(data, dataType, series) ==
    IF dataType = MetricHeartRate THEN [data EXCEPT !.heartRate = SomeSeries(series)]
    ELSE IF dataType = MetricActiveEnergy THEN [data EXCEPT !.activeEnergy = SomeSeries(series)]
    ELSE IF dataType = MetricRestingEnergy THEN [data EXCEPT !.restingEnergy = SomeSeries(series)]
    ELSE IF dataType = MetricDistance THEN [data EXCEPT !.distance = SomeSeries(series)]
    ELSE IF dataType = MetricStepCount THEN [data EXCEPT !.stepCount = SomeSeries(series)]
    ELSE IF dataType = MetricRecovery THEN [data EXCEPT !.heartRateRecovery = SomeSeries(series)]
    ELSE data


\* 2024-09-02T13:52:08 local, the instant the file names carry
StartInstant == NewDate(ReplaceFirst(StartText, <<" ">>, <<"T">>)).ms

DetailFileChoices ==
    { [name |-> NameHeartRate, csvText |-> Join(<<HeaderMinMaxAvg, RowFull>>, "\n")],
      [name |-> NameActiveEnergy, csvText |-> Join(<<HeaderLowerValue, RowTwo>>, "\n")],
      [name |-> NameLowerType, csvText |-> Join(<<HeaderLowerValue, RowTwo>>, "\n")],
      [name |-> NameHyphenType, csvText |-> Join(<<HeaderLowerValue, RowTwo, RowZero>>, "\n")],
      [name |-> NameTwoParts, csvText |-> Join(<<HeaderLowerValue, RowTwo>>, "\n")],
      [name |-> NameShortStamp, csvText |-> Join(<<HeaderMinMaxAvg, RowBad>>, "\n")],
      [name |-> NameBadStamp, csvText |-> Join(<<HeaderLowerValue, RowZero>>, "\n")],
      [name |-> NameRoute, csvText |-> GpxText],
      [name |-> NameGpxHeartRate, csvText |-> GpxText],
      [name |-> NameOtherMetric, csvText |-> Join(<<HeaderLowerValue, RowTwo>>, "\n")] }

DetailFileLists == UNION { [1..n -> DetailFileChoices] : n \in 0..MaxDetailFiles }

WorkoutStarts ==
    { NoDate, InvalidDate,
      Date(StartInstant - MatchTolerance - 1), Date(StartInstant - MatchTolerance),
      Date(StartInstant),
      Date(StartInstant + MatchTolerance), Date(StartInstant + MatchTolerance + 1) }

DetailWorkouts == [ name : {TypeRun, TypeHyphen}, start : WorkoutStarts, end : {NoDate} ]

DetailInit ==
    /\ forWorkout \in DetailWorkouts
    /\ detailFiles \in DetailFileLists
    /\ dpc = "call"
    /\ detailIdx = 1
    /\ detailData = <<>>
    /\ matchedCount = 0
    /\ matched = {}

\* lines 672-685
ExtractStart ==
    /\ dpc = "call"
    /\ dpc' = "loop"
    /\ detailData' = [workoutName |-> forWorkout.name,
                      workoutType |-> forWorkout.name,
                      startTime |-> forWorkout.start,
                      endTime |-> forWorkout.end,
                      heartRate |-> NoSeries,
                      activeEnergy |-> NoSeries,
                      restingEnergy |-> NoSeries,
                      distance |-> NoSeries,
                      stepCount |-> NoSeries,
                      heartRateRecovery |-> NoSeries,
                      route |-> NoRoute]
    /\ matchedCount' = 0
    /\ UNCHANGED <<forWorkout, detailFiles, detailIdx, matched>>

\* lines 687-739: one iteration of the loop
ExtractStep ==
    /\ dpc = "loop"
    /\ detailIdx <= Len(detailFiles)
    /\ LET detail == detailFiles[detailIdx]
           parts == Split(detail.name, "-")
           workoutStart == forWorkout.start
       IN  IF \/ Len(parts) < 3
              \/ ~SameType(FileWorkoutType(parts), forWorkout.name)
              \/ /\ workoutStart.kind # "undefined"
                 /\ TimestampMismatch(workoutStart, parseHealthTimestamp(Timestamp(parts)))
           THEN UNCHANGED <<detailData, matchedCount, matched>>
           ELSE /\ matchedCount' = matchedCount + 1
                /\ matched' = matched \cup {detailIdx}
                /\ detailData' =
                    IF EndsWith(detail.name, DotGpx)
                    THEN [detailData EXCEPT !.route = [set |-> TRUE, text |-> detail.csvText]]
                    ELSE WithSeries(detailData, DataType(parts), parseDetailCsv(detail.csvText))
    /\ detailIdx' = detailIdx + 1
    /\ UNCHANGED <<forWorkout, detailFiles, dpc>>

\* line 743
ExtractReturn ==
    /\ dpc = "loop"
    /\ detailIdx > Len(detailFiles)
    /\ dpc' = "returned"
    /\ UNCHANGED <<forWorkout, detailFiles, detailIdx, detailData, matchedCount, matched>>

(***************************************************************************)
(* Claims about the ZIP container decoder, checked under SpecZip.          *)
(***************************************************************************)

\* C3: parseZipEntries and decodeZipEntry never throw: no read leaves the
\* buffer and a deflate payload that cannot be inflated gives null.
C3_DecoderNeverThrows == zpc # "rangeError" /\ zpc # "inflateError"

\* The central-directory record under the cursor, as the bytes say it.
CurRecordValid ==
    /\ zpc = "walk"
    /\ i < totalEntries
    /\ offset + 46 <= Len(bytes)
    /\ Slice(bytes, offset, offset + 4) = CentralSignature
    /\ offset + 46 + GetUint16(bytes, offset + 28) <= Len(bytes)

CurLocalHeaderInside == GetUint32(bytes, offset + 42) + 30 <= Len(bytes)

\* the payload starts no earlier than 30 bytes after the local header offset
CurPayloadExceeds ==
    LET lho == GetUint32(bytes, offset + 42)
        size == GetUint32(bytes, offset + 20)
    IN  IF lho + 30 > Len(bytes) THEN TRUE
        ELSE lho + 30 + GetUint16(bytes, lho + 26) + GetUint16(bytes, lho + 28) + size
                > Len(bytes)

EntriesFitBuffer ==
    \A k \in 1..Len(entries) :
        entries[k].dataStart + entries[k].compressedSize <= Len(bytes)

DroppedAndWalkContinues ==
    /\ zpc' = "walk"
    /\ entries' = entries
    /\ i' = i + 1
    /\ offset' = offset + 46 + GetUint16(bytes, offset + 28)
                    + GetUint16(bytes, offset + 30) + GetUint16(bytes, offset + 32)

\* C4 as stated: every returned entry satisfies dataStart + compressedSize <=
\* buffer length, and every central-directory record whose payload would exceed
\* the buffer is dropped while the walk continues with the next record.
C4_Original ==
    /\ []EntriesFitBuffer
    /\ [][CurRecordValid /\ CurPayloadExceeds => DroppedAndWalkContinues]_vars

\* C4 amended: every returned entry satisfies dataStart + compressedSize <=
\* buffer length; a record whose local header lies inside the buffer and whose
\* payload would exceed the buffer is dropped while the walk continues with
\* the next record; a record whose local header offset + 30 is past the buffer
\* ends the walk.
C4_PayloadOverrunDropped ==
    /\ []EntriesFitBuffer
    /\ [][CurRecordValid /\ CurLocalHeaderInside /\ CurPayloadExceeds
            => DroppedAndWalkContinues]_vars
    /\ [][CurRecordValid /\ ~CurLocalHeaderInside
            => zpc' = "decode" /\ entries' = entries]_vars

\* C4 witness: the first record was dropped for its payload and the second,
\* valid one was returned.
C4_Witness ==
    /\ zpc = "done"
    /\ i = 2
    /\ Len(entries) = 1
    /\ entries[1].name = <<98>>
    /\ EntriesFitBuffer

(***************************************************************************)
(* scanWatchFolder (lines 219-267) and processCsvSummaryFile (lines        *)
(* 471-497).  The platform runs one continuation at a time: an action is   *)
(* what runs from one await to the next.  Invocations come from the        *)
(* interval timer (line 204), the start of the watcher (line 202), the     *)
(* command (line 156) and the settings button (line 1067).                 *)
(***************************************************************************)
MaxInvocations == 3

Invocations == 1..MaxInvocations

\* the files the folder may hold: a CSV without a workout-type column (zero
\* rows), a summary CSV with rows, an archive
CsvWithoutRows == "notes.csv"
CsvWithRows == "workouts.csv"
ZipArchive == "export.zip"

WatchFiles == {CsvWithoutRows, CsvWithRows, ZipArchive}

\* files.filter(... endsWith(".csv")) and endsWith(".zip"), lines 250-251
IsCsvFile(f) == f \in {CsvWithoutRows, CsvWithRows}

\* parseWorkoutCsvRows(csvText).length for the text of the file
RowCount(f) == IF f = CsvWithRows THEN 1 ELSE 0

\* the order adapter.list gives the files in
ListOrder == <<CsvWithoutRows, CsvWithRows, ZipArchive>>

\* lines 250-261: the CSV files in list order, then the archives
ScanOrder(folder) ==
    LET Present(f) == f \in folder
        Csv(f) == IsCsvFile(f)
        Zip(f) == ~IsCsvFile(f)
        listed == SelectSeq(ListOrder, Present)
    IN  SelectSeq(listed, Csv) \o SelectSeq(listed, Zip)

NotInvoked == [pc |-> "idle", todo |-> <<>>, deleteOnSuccess |-> FALSE, how |-> ""]

InBody == {"exists", "list", "csvRead", "csvImport", "csvRemove", "zip"}

\* mutant of GuardRejects: the guard lets every invocation through
GuardNeverRejects(flag) == FALSE

\* line 229: if (this.isScanningFolder) return
GuardRejects(flag) == flag

\* mutant of FlagAfterFinally: the flag is not reset after an exception
FlagAfterFinallyUnlessThrown(how) == how = "threw"

\* line 265: this.isScanningFolder = false, however the try block ended
FlagAfterFinally(how) == FALSE

ScanInit ==
    /\ isScanningFolder = FALSE
    /\ watchFolder \in SUBSET WatchFiles
    /\ scan = [p \in Invocations |-> NotInvoked]
    /\ removals = <<>>

\* lines 220-238: up to the first await
Invoke(p) ==
    /\ scan[p].pc = "idle"
    /\ \E pathSet \in BOOLEAN :
        IF ~pathSet THEN
            /\ scan' = [scan EXCEPT ![p].pc = "aborted"]
            /\ UNCHANGED isScanningFolder
        ELSE IF GuardRejects(isScanningFolder) THEN
            /\ scan' = [scan EXCEPT ![p].pc = "rejected"]
            /\ UNCHANGED isScanningFolder
        ELSE
            /\ isScanningFolder' = TRUE
            /\ scan' = [scan EXCEPT ![p].pc = "exists"]
    /\ UNCHANGED <<watchFolder, removals>>

\* the try block is left (return, end of the loops, or catch): the finally
\* block of line 264 runs in the same continuation
Leave(p, how) ==
    /\ scan' = [scan EXCEPT ![p] = [pc |-> "done", todo |-> <<>>,
                                    deleteOnSuccess |-> FALSE, how |-> how]]
    /\ isScanningFolder' = FlagAfterFinally(how)

\* lines 253-261: the loops go on with the files left
Continue(p, left) ==
    IF left = <<>> THEN Leave(p, "normal")
    ELSE /\ scan' = [scan EXCEPT ![p] =
                [pc |-> IF IsCsvFile(Head(left)) THEN "csvRead" ELSE "zip",
                 todo |-> left, deleteOnSuccess |-> FALSE, how |-> ""]]
         /\ UNCHANGED isScanningFolder

\* lines 238-243: adapter.exists settles
ExistsSettles(p) ==
    /\ scan[p].pc = "exists"
    /\ \/ /\ scan' = [scan EXCEPT ![p].pc = "list"]
          /\ UNCHANGED isScanningFolder
       \/ Leave(p, "noFolder")
       \/ Leave(p, "threw")
    /\ UNCHANGED <<watchFolder, removals>>

\* lines 245-253: adapter.list settles
ListSettles(p) ==
    /\ scan[p].pc = "list"
    /\ \/ Continue(p, ScanOrder(watchFolder))
       \/ Leave(p, "threw")
    /\ UNCHANGED <<watchFolder, removals>>

\* lines 476-483 and 486-487: adapter.read settles
CsvRead(p) ==
    /\ scan[p].pc = "csvRead"
    /\ \/ IF RowCount(Head(scan[p].todo)) = 0
          THEN scan' = [scan EXCEPT ![p].pc = "csvRemove", ![p].deleteOnSuccess = TRUE]
          ELSE scan' = [scan EXCEPT ![p].pc = "csvImport"]
       \/ scan' = [scan EXCEPT ![p].pc = "csvRemove"]
    /\ UNCHANGED <<isScanningFolder, watchFolder, removals>>

\* lines 484-487: importCsvRows settles
CsvImport(p) ==
    /\ scan[p].pc = "csvImport"
    /\ \E returned \in BOOLEAN :
        scan' = [scan EXCEPT ![p].pc = "csvRemove", ![p].deleteOnSuccess = returned]
    /\ UNCHANGED <<isScanningFolder, watchFolder, removals>>

\* lines 488-496: the finally block of processCsvSummaryFile, then the loops
\* of scanWatchFolder
CsvRemove(p) ==
    /\ scan[p].pc = "csvRemove"
    /\ LET f == Head(scan[p].todo) IN
        \E removeRejects \in BOOLEAN :
            IF scan[p].deleteOnSuccess /\ ~removeRejects /\ f \in watchFolder
            THEN /\ watchFolder' = watchFolder \ {f}
                 /\ removals' = Append(removals, [file |-> f, rowCount |-> RowCount(f)])
            ELSE UNCHANGED <<watchFolder, removals>>
    /\ Continue(p, Tail(scan[p].todo))

\* line 260: processZipFile settles; it removes the archive or leaves it
ZipSettles(p) ==
    /\ scan[p].pc = "zip"
    /\ \E archiveRemoved \in BOOLEAN :
        watchFolder' = IF archiveRemoved THEN watchFolder \ {Head(scan[p].todo)}
                       ELSE watchFolder
    /\ Continue(p, Tail(scan[p].todo))
    /\ UNCHANGED removals

(***************************************************************************)
(* The components of the ingestion core called a second time on the        *)
(* argument of the first call.  What a call starts from is what its        *)
(* declarations give it: every variable of parseZipEntries (lines          *)
(* 2625-2638), extractDetailDataForWorkout (lines 672-685) and             *)
(* createWorkoutFromCsvRecord (lines 913-936) is a local of the call, and  *)
(* none of them reads a field of the plugin.                               *)
(***************************************************************************)
\* mutant of FreshEntries: the array of the call before is used again
FreshEntriesKeepingFirstRun(previous) == previous

\* line 2625: const entries: ZipEntryInfo[] = []
FreshEntries(previous) == <<>>

ZipCallOver == zpc \in {"done", "rangeError", "inflateError"}

\* parseZipEntries and decodeZipEntry are called again on the same bytes
ZipAgain ==
    /\ runNo = "first"
    /\ ZipCallOver
    /\ firstResult' = <<[how |-> zpc, entries |-> entries, walkEnd |-> walkEnd,
                        decoded |-> decoded]>>
    /\ runNo' = "second"
    /\ zpc' = "parse"
    /\ totalEntries' = 0
    /\ offset' = 0
    /\ i' = 0
    /\ entries' = FreshEntries(entries)
    /\ walkEnd' = ""
    /\ decIdx' = 1
    /\ decoded' = <<>>
    /\ UNCHANGED bytes

\* extractDetailDataForWorkout is called again on the same workout and files
DetailAgain ==
    /\ runNo = "first"
    /\ dpc = "returned"
    /\ firstResult' = <<[how |-> dpc, bundle |-> detailData, matchedCount |-> matchedCount,
                        matched |-> matched]>>
    /\ runNo' = "second"
    /\ dpc' = "call"
    /\ detailIdx' = 1
    /\ matched' = {}
    /\ UNCHANGED <<forWorkout, detailFiles, detailData, matchedCount>>

\* createWorkoutFromCsvRecord is called again on the same row
WorkoutAgain ==
    /\ runNo = "first"
    /\ wpc \in {"returned", "threw"}
    /\ firstResult' = <<[how |-> wpc, workout |-> workout]>>
    /\ runNo' = "second"
    /\ wpc' = "call"
    /\ workout' = NullWorkout
    /\ UNCHANGED record

(***************************************************************************)
(* Specifications: one per component, the other components at rest.        *)
(***************************************************************************)
ZipIdle ==
    /\ bytes = <<>>
    /\ zpc = "idle"
    /\ totalEntries = 0
    /\ offset = 0
    /\ i = 0
    /\ entries = <<>>
    /\ walkEnd = ""
    /\ decIdx = 1
    /\ decoded = <<>>

IngestIdle ==
    /\ zipFile = <<>>
    /\ vault = {}
    /\ ppc = "idle"
    /\ idx = 1
    /\ summaryEntry = 0
    /\ detailEntries = <<>>
    /\ rows = <<>>
    /\ rowIdx = 1
    /\ created = <<>>
    /\ correlated = <<>>
    /\ saved = <<>>
    /\ deleteOnSuccess = FALSE
    /\ removed = FALSE
    /\ caught = FALSE

SeriesIdle ==
    /\ csvText = <<>>
    /\ spc = "idle"
    /\ lines = <<>>
    /\ header = <<>>
    /\ lineNo = 1
    /\ dataPoints = <<>>

WorkoutIdle ==
    /\ record = <<>>
    /\ wpc = "idle"
    /\ workout = NullWorkout

DetailIdle ==
    /\ forWorkout = <<>>
    /\ detailFiles = <<>>
    /\ dpc = "idle"
    /\ detailIdx = 1
    /\ detailData = <<>>
    /\ matchedCount = 0
    /\ matched = {}

LineIdle ==
    /\ lineArg = <<>>
    /\ tpc = "idle"
    /\ fields = <<>>

ScanIdle ==
    /\ isScanningFolder = FALSE
    /\ watchFolder = {}
    /\ scan = <<>>
    /\ removals = <<>>

CoreIdle ==
    /\ runNo = "idle"
    /\ firstResult = <<>>

ZipNext ==
    \/ ParseStart /\ UNCHANGED <<ingestVars, seriesVars, workoutVars, detailVars, lineVars, scanVars, coreVars>>
    \/ CdStep /\ UNCHANGED <<ingestVars, seriesVars, workoutVars, detailVars, lineVars, scanVars, coreVars>>
    \/ DecodeStep /\ UNCHANGED <<ingestVars, seriesVars, workoutVars, detailVars, lineVars, scanVars, coreVars>>
    \/ DecodeDone /\ UNCHANGED <<ingestVars, seriesVars, workoutVars, detailVars, lineVars, scanVars, coreVars>>

InitZip == ZipInit /\ IngestIdle /\ SeriesIdle /\ WorkoutIdle /\ DetailIdle /\ LineIdle /\ ScanIdle /\ CoreIdle

SpecZip == InitZip /\ [][ZipNext]_vars

IngestNext ==
    \/ ReadBinary /\ UNCHANGED <<zipVars, seriesVars, workoutVars, detailVars, lineVars, scanVars, coreVars>>
    \/ ClassifyStep /\ UNCHANGED <<zipVars, seriesVars, workoutVars, detailVars, lineVars, scanVars, coreVars>>
    \/ SummaryStep /\ UNCHANGED <<zipVars, seriesVars, workoutVars, detailVars, lineVars, scanVars, coreVars>>
    \/ ImportRow /\ UNCHANGED <<zipVars, seriesVars, workoutVars, detailVars, lineVars, scanVars, coreVars>>
    \/ ImportDone /\ UNCHANGED <<zipVars, seriesVars, workoutVars, detailVars, lineVars, scanVars, coreVars>>
    \/ Finally /\ UNCHANGED <<zipVars, seriesVars, workoutVars, detailVars, lineVars, scanVars, coreVars>>
    \/ Reprocess /\ UNCHANGED <<zipVars, seriesVars, workoutVars, detailVars, lineVars, scanVars, coreVars>>

InitIngest == IngestInit /\ ZipIdle /\ SeriesIdle /\ WorkoutIdle /\ DetailIdle /\ LineIdle /\ ScanIdle /\ CoreIdle

SpecIngest == InitIngest /\ [][IngestNext]_vars

SeriesNext ==
    \/ SeriesStart /\ UNCHANGED <<zipVars, ingestVars, workoutVars, detailVars, lineVars, scanVars, coreVars>>
    \/ SeriesRow /\ UNCHANGED <<zipVars, ingestVars, workoutVars, detailVars, lineVars, scanVars, coreVars>>
    \/ SeriesReturn /\ UNCHANGED <<zipVars, ingestVars, workoutVars, detailVars, lineVars, scanVars, coreVars>>

InitSeries == SeriesInit /\ ZipIdle /\ IngestIdle /\ WorkoutIdle /\ DetailIdle /\ LineIdle /\ ScanIdle /\ CoreIdle

SpecSeries == InitSeries /\ [][SeriesNext]_vars

WorkoutNext ==
    \/ CreateWorkout /\ UNCHANGED <<zipVars, ingestVars, seriesVars, detailVars, lineVars, scanVars, coreVars>>

InitWorkout == WorkoutInit /\ ZipIdle /\ IngestIdle /\ SeriesIdle /\ DetailIdle /\ LineIdle /\ ScanIdle /\ CoreIdle

SpecWorkout == InitWorkout /\ [][WorkoutNext]_vars

DetailNext ==
    \/ ExtractStart /\ UNCHANGED <<zipVars, ingestVars, seriesVars, workoutVars, lineVars, scanVars, coreVars>>
    \/ ExtractStep /\ UNCHANGED <<zipVars, ingestVars, seriesVars, workoutVars, lineVars, scanVars, coreVars>>
    \/ ExtractReturn /\ UNCHANGED <<zipVars, ingestVars, seriesVars, workoutVars, lineVars, scanVars, coreVars>>

InitDetail == DetailInit /\ ZipIdle /\ IngestIdle /\ SeriesIdle /\ WorkoutIdle /\ LineIdle /\ ScanIdle /\ CoreIdle

SpecDetail == InitDetail /\ [][DetailNext]_vars

LineNext ==
    \/ TokenizeLine /\ UNCHANGED <<zipVars, ingestVars, seriesVars, workoutVars, detailVars, scanVars, coreVars>>

InitLine == LineInit /\ ZipIdle /\ IngestIdle /\ SeriesIdle /\ WorkoutIdle /\ DetailIdle /\ ScanIdle /\ CoreIdle

SpecLine == InitLine /\ [][LineNext]_vars

\* the argument of one component, its locals as its declarations give them
CoreInit ==
    /\ runNo = "first"
    /\ firstResult = <<>>
    /\ \/ /\ bytes \in WalkArchives
          /\ zpc = "parse"
          /\ totalEntries = 0
          /\ offset = 0
          /\ i = 0
          /\ entries = <<>>
          /\ walkEnd = ""
          /\ decIdx = 1
          /\ decoded = <<>>
          /\ DetailIdle
          /\ WorkoutIdle
       \/ DetailInit /\ ZipIdle /\ WorkoutIdle
       \/ WorkoutInit /\ ZipIdle /\ DetailIdle

CoreNext ==
    \/ ParseStart /\ UNCHANGED <<ingestVars, seriesVars, workoutVars, detailVars, lineVars, scanVars, coreVars>>
    \/ CdStep /\ UNCHANGED <<ingestVars, seriesVars, workoutVars, detailVars, lineVars, scanVars, coreVars>>
    \/ DecodeStep /\ UNCHANGED <<ingestVars, seriesVars, workoutVars, detailVars, lineVars, scanVars, coreVars>>
    \/ DecodeDone /\ UNCHANGED <<ingestVars, seriesVars, workoutVars, detailVars, lineVars, scanVars, coreVars>>
    \/ ExtractStart /\ UNCHANGED <<zipVars, ingestVars, seriesVars, workoutVars, lineVars, scanVars, coreVars>>
    \/ ExtractStep /\ UNCHANGED <<zipVars, ingestVars, seriesVars, workoutVars, lineVars, scanVars, coreVars>>
    \/ ExtractReturn /\ UNCHANGED <<zipVars, ingestVars, seriesVars, workoutVars, lineVars, scanVars, coreVars>>
    \/ CreateWorkout /\ UNCHANGED <<zipVars, ingestVars, seriesVars, detailVars, lineVars, scanVars, coreVars>>
    \/ ZipAgain /\ UNCHANGED <<ingestVars, seriesVars, workoutVars, detailVars, lineVars, scanVars>>
    \/ DetailAgain /\ UNCHANGED <<zipVars, ingestVars, seriesVars, workoutVars, lineVars, scanVars>>
    \/ WorkoutAgain /\ UNCHANGED <<zipVars, ingestVars, seriesVars, detailVars, lineVars, scanVars>>

InitCore == CoreInit /\ IngestIdle /\ SeriesIdle /\ LineIdle /\ ScanIdle

SpecCore == InitCore /\ [][CoreNext]_vars

ScanNext ==
    \/ (\E p \in Invocations : Invoke(p)) /\ UNCHANGED <<zipVars, ingestVars, seriesVars, workoutVars, detailVars, lineVars, coreVars>>
    \/ (\E p \in Invocations : ExistsSettles(p)) /\ UNCHANGED <<zipVars, ingestVars, seriesVars, workoutVars, detailVars, lineVars, coreVars>>
    \/ (\E p \in Invocations : ListSettles(p)) /\ UNCHANGED <<zipVars, ingestVars, seriesVars, workoutVars, detailVars, lineVars, coreVars>>
    \/ (\E p \in Invocations : CsvRead(p)) /\ UNCHANGED <<zipVars, ingestVars, seriesVars, workoutVars, detailVars, lineVars, coreVars>>
    \/ (\E p \in Invocations : CsvImport(p)) /\ UNCHANGED <<zipVars, ingestVars, seriesVars, workoutVars, detailVars, lineVars, coreVars>>
    \/ (\E p \in Invocations : CsvRemove(p)) /\ UNCHANGED <<zipVars, ingestVars, seriesVars, workoutVars, detailVars, lineVars, coreVars>>
    \/ (\E p \in Invocations : ZipSettles(p)) /\ UNCHANGED <<zipVars, ingestVars, seriesVars, workoutVars, detailVars, lineVars, coreVars>>

InitScan ==
    /\ ScanInit
    /\ ZipIdle /\ IngestIdle /\ SeriesIdle /\ WorkoutIdle /\ DetailIdle /\ LineIdle /\ CoreIdle

SpecScan == InitScan /\ [][ScanNext]_vars

\* every promise the scan awaits settles: an invocation that is past the guard
\* takes its next step
Settles(p) ==
    \/ ExistsSettles(p) \/ ListSettles(p) \/ CsvRead(p)
    \/ CsvImport(p) \/ CsvRemove(p) \/ ZipSettles(p)

SpecScanFair ==
    /\ InitScan
    /\ [][ScanNext]_vars
    /\ \A p \in Invocations : WF_scanVars(Settles(p))

(***************************************************************************)
(* Claims about processZipFile, checked under SpecIngest.                  *)
(***************************************************************************)
EntryNames == { c.name : c \in ArchiveEntryChoices }

\* the entry names whose last path segment reads Workouts-*.csv
SummaryNamed ==
    { n \in EntryNames :
        LET base == Last(Split(n, "/"))
        IN  /\ Len(base) >= 13
            /\ SubSeq(base, 1, 9) = <<"W","o","r","k","o","u","t","s","-">>
            /\ SubSeq(base, Len(base) - 3, Len(base)) = <<".","c","s","v">> }

SummaryIndices == { k \in 1..Len(zipFile) : zipFile[k].name \in SummaryNamed }

FirstSummaryIndex ==
    LET found == SummaryIndices
    IN  IF found = {} THEN 0
        ELSE CHOOSE k \in found : \A h \in found : k <= h

LastSummaryIndex ==
    LET found == SummaryIndices
    IN  IF found = {} THEN 0
        ELSE CHOOSE k \in found : \A h \in found : h <= k

ClassifyLoopOver == ppc \in {"import", "finally", "done"} /\ idx > Len(zipFile)

\* C1 as stated: with several entries named Workouts-*.csv, the first one in
\* central-directory order is the summary that is decoded and parsed.
C1_Original ==
    ClassifyLoopOver =>
        /\ summaryEntry = FirstSummaryIndex
        /\ rows # <<>> => rows = SummaryRows(zipFile[FirstSummaryIndex].decode.text)

\* C1 amended: with several entries named Workouts-*.csv, the last one in
\* central-directory order is the summary that is decoded and parsed; earlier
\* matching entries are never used.
C1_LastSummaryWins ==
    ClassifyLoopOver =>
        LET last == LastSummaryIndex
        IN  /\ summaryEntry = last
            /\ rows # <<>> => rows = SummaryRows(zipFile[last].decode.text)

\* C1 witness: two summary entries, the first of which does not decode; the
\* rows of the last one were imported.
C1_Witness ==
    /\ ppc = "done"
    /\ Cardinality(SummaryIndices) >= 2
    /\ zipFile[FirstSummaryIndex].decode.kind = "null"
    /\ zipFile[LastSummaryIndex].decode.text = "S3"
    /\ summaryEntry = LastSummaryIndex
    /\ created # <<>>
    /\ removed

(***************************************************************************)
(* Claims about parseDetailCsv, checked under SpecSeries.                  *)
(***************************************************************************)
HeaderText == Split(Trim(csvText), "\n")[1]

\* the data lines that tokenize to at least two fields, tokenized, in order
KeptDataLines ==
    LET all == Tail(Split(Trim(csvText), "\n"))
        tokenized == [k \in 1..Len(all) |-> parseCsvLine(all[k])]
        AtLeastTwo(v) == Len(v) >= 2
    IN  SelectSeq(tokenized, AtLeastTwo)

Column(values, k) ==
    LET x == IF k + 1 <= Len(values) THEN parseFloat(values[k + 1]) ELSE NaN
    IN  IF x.kind = "NaN" \/ x.milli = 0 THEN Undefined ELSE x

SeriesReadAs(layout) ==
    [k \in 1..Len(KeptDataLines) |->
        IF layout = "value"
        THEN [timestamp |-> KeptDataLines[k][1], value |-> Column(KeptDataLines[k], 1)]
        ELSE [timestamp |-> KeptDataLines[k][1],
              min |-> Column(KeptDataLines[k], 1),
              max |-> Column(KeptDataLines[k], 2),
              avg |-> Column(KeptDataLines[k], 3)]]

\* the layout by mention: "Min" anywhere in the header line in any letter
\* case, else "Value" anywhere in it in any letter case
LayoutByMention ==
    IF IndexOf(ToLower(HeaderText), <<"m","i","n">>) # -1 THEN "minMaxAvg"
    ELSE IF IndexOf(ToLower(HeaderText), <<"v","a","l","u","e">>) # -1 THEN "value"
    ELSE "minMaxAvg"

\* the layout by column title: a title equal to "Min" or "min", else a title
\* equal to "Value" or "value"
LayoutByTitle ==
    LET titles == parseCsvLine(HeaderText)
        Has(w) == \E k \in 1..Len(titles) : titles[k] = w
    IN  IF Has(<<"M","i","n">>) \/ Has(<<"m","i","n">>) THEN "minMaxAvg"
        ELSE IF Has(<<"V","a","l","u","e">>) \/ Has(<<"v","a","l","u","e">>) THEN "value"
        ELSE "minMaxAvg"

SeriesReturned == spc = "done" /\ Len(lines) >= 2

\* C5 as stated: a header that mentions "Min" in any letter case, also inside
\* a longer column title, selects (timestamp, min, max, avg) from columns 0-3;
\* otherwise one that mentions "Value" selects (timestamp, value) from columns
\* 0-1; otherwise min/max/avg.
C5_Original == SeriesReturned => dataPoints = SeriesReadAs(LayoutByMention)

\* C5: the header is tokenized and trimmed; a column title equal to
\* "Min" or "min" selects (timestamp, min, max, avg) from columns 0-3; otherwise
\* a title equal to "Value" or "value" selects (timestamp, value) from columns
\* 0-1; otherwise min/max/avg.
C5_LayoutByExactTitle == SeriesReturned => dataPoints = SeriesReadAs(LayoutByTitle)

\* C5 witness: a header with "Min" inside a longer title and a column titled
\* "Value" gave a point in the value layout.
C5_Witness ==
    /\ SeriesReturned
    /\ HeaderText = HeaderLongMin
    /\ Len(dataPoints) >= 1
    /\ DOMAIN dataPoints[1] = {"timestamp", "value"}
    /\ dataPoints[1].value = Num(60000)


(***************************************************************************)
(* Claims about createWorkoutFromCsvRecord, checked under SpecWorkout.     *)
(***************************************************************************)
WorkoutReturned == wpc = "returned" /\ workout.kind = "workout"

FieldBlank(v) == v = NoString \/ Trim(v) = <<>>

StartParses == ~FieldBlank(record.Start)
               /\ NewDate(ReplaceFirst(Trim(record.Start), <<" ">>, <<"T">>)).kind = "date"

EndParses == ~FieldBlank(record.End)
             /\ NewDate(ReplaceFirst(Trim(record.End), <<" ">>, <<"T">>)).kind = "date"

StartToEndSeconds ==
    MathRound(NewDate(ReplaceFirst(Trim(record.End), <<" ">>, <<"T">>)).ms
              - NewDate(ReplaceFirst(Trim(record.Start), <<" ">>, <<"T">>)).ms)

DurationPresent == ~FieldBlank(record.Duration)

DurationParts == Split(Trim(record.Duration), ":")

EveryPartParses ==
    \A k \in 1..Len(DurationParts) : parseInt(DurationParts[k]).kind = "number"

\* total = total * 60 + part over the parts, left to right
ColonSeconds ==
    LET n == Len(DurationParts)
        part(k) == parseInt(DurationParts[k]).milli
    IN  IF n = 1 THEN part(1)
        ELSE IF n = 2 THEN part(1) * 60 + part(2)
        ELSE (part(1) * 60 + part(2)) * 60 + part(3)

\* C6: every workout record returned by createWorkoutFromCsvRecord has a
\* duration that is an integer >= 0, for every row, rows whose End is earlier
\* than Start and rows whose Duration field has signed parts included.
C6_DurationNonNegativeInteger ==
    WorkoutReturned =>
        /\ workout.duration.kind = "number"
        /\ workout.duration.milli % 1000 = 0
        /\ workout.duration.milli >= 0

\* C9 as stated: a present Duration field, read as colon-separated integers
\* accumulated as total*60 + part, decides the duration even when End is
\* present; round((end - start)/1000) is used only when Duration is absent and
\* End parsed; in every other case the duration is 0.
C9_Original ==
    WorkoutReturned =>
        workout.duration =
            IF DurationPresent
            THEN IF EveryPartParses THEN Num(ColonSeconds) ELSE Num(0)
            ELSE IF EndParses THEN Num(StartToEndSeconds) ELSE Num(0)

\* C9: a Duration field that is present and whose every colon-separated part
\* parses as an integer decides the duration (total*60 + part, so "0:45:30"
\* gives 2730) even when End is present; when Duration is absent or one of its
\* parts does not parse, round((end - start)/1000) is used if End parsed;
\* otherwise the duration is 0.
C9_UnparsedDurationFallsBackToEnd ==
    WorkoutReturned =>
        /\ workout.duration =
            IF DurationPresent /\ EveryPartParses THEN Num(ColonSeconds)
            ELSE IF EndParses THEN Num(StartToEndSeconds) ELSE Num(0)
        /\ record.Duration = DurationHms => workout.duration = Num(2730 * 1000)

C9_Witness ==
    /\ WorkoutReturned
    /\ record.Duration = DurationBadPart
    /\ record.End = LaterText
    /\ workout.duration = Num(2730 * 1000)

\* C10: createWorkoutFromCsvRecord returns null, and does not throw, for every
\* row whose "Workout Type" or "Start" field is missing or empty after
\* trimming and for every row whose Start does not parse as a date-time; for
\* every other row it returns a record whose name is the trimmed Workout Type.
C10_NullOrNamedAfterType ==
    /\ wpc # "threw"
    /\ wpc = "returned" =>
        IF FieldBlank(record.WorkoutType) \/ FieldBlank(record.Start) \/ ~StartParses
        THEN workout = NullWorkout
        ELSE workout.kind = "workout" /\ workout.name = Trim(record.WorkoutType)

C10_Witness ==
    /\ wpc = "returned"
    /\ record.WorkoutType = TypePadded
    /\ record.Start = StartText
    /\ workout.kind = "workout"
    /\ workout.name = TypeRun


(***************************************************************************)
(* Claims about extractDetailDataForWorkout, checked under SpecDetail.     *)
(***************************************************************************)
\* the files the loop is done with
Examined == 1..(detailIdx - 1)

Segments(k) == Split(detailFiles[k].name, "-")

\* all segments before the last two, rejoined with "-"
TypeToken(k) ==
    LET seg == Segments(k)
    IN  Join([n \in 1..(Len(seg) - 2) |-> seg[n]], "-")

MetricToken(k) == Segments(k)[Len(Segments(k)) - 1]

\* the last segment without its extension
TimestampToken(k) ==
    LET last == Segments(k)[Len(Segments(k))]
    IN  IF EndsWith(last, DotCsv) \/ EndsWith(last, DotGpx)
        THEN SubSeq(last, 1, Len(last) - 4) ELSE last

TypeMatches(k) == Len(Segments(k)) >= 3 /\ TypeToken(k) = forWorkout.name

TokenParses(k) == parseHealthTimestamp(TimestampToken(k)).kind = "date"

HasStart == forWorkout.start.kind # "undefined"

Included(k) == k \in matched

\* C2 as stated: a file whose type token equals the workout type and whose
\* timestamp token does not parse as YYYYMMDD_HHMMSS is treated as matching
\* only when the workout has no start; with a start it is excluded.
C2_Original ==
    \A k \in Examined :
        (dpc # "idle" /\ TypeMatches(k) /\ ~TokenParses(k)) => (Included(k) <=> ~HasStart)

\* C2: a file whose type token equals the workout type and whose timestamp
\* token does not parse as YYYYMMDD_HHMMSS is treated as matching whether or
\* not the workout has a start.
C2_UnparsedTimestampAlwaysMatches ==
    \A k \in Examined :
        (dpc # "idle" /\ TypeMatches(k) /\ ~TokenParses(k)) => Included(k)

C2_Witness ==
    /\ dpc = "returned"
    /\ forWorkout.start = Date(StartInstant + MatchTolerance + 1)
    /\ \E k \in Examined :
        /\ detailFiles[k].name = NameBadStamp
        /\ Included(k)
        /\ detailData.activeEnergy = SomeSeries(parseDetailCsv(detailFiles[k].csvText))

FileInstant(k) == parseHealthTimestamp(TimestampToken(k)).ms

\* C7: for a file whose type token equals the workout type and whose
\* timestamp token parses, and a workout with a start instant, the file is
\* included exactly when |file timestamp - workout start| <= 5000 ms.
C7_WithinFiveSeconds ==
    \A k \in Examined :
        (dpc # "idle" /\ TypeMatches(k) /\ TokenParses(k) /\ forWorkout.start.kind = "date")
            => (Included(k) <=> Abs(FileInstant(k) - forWorkout.start.ms) <= 5000)

C7_Witness ==
    /\ dpc = "returned"
    /\ Len(detailFiles) = 2
    /\ forWorkout.start = Date(StartInstant + 5000)
    /\ detailFiles[1].name = NameHeartRate
    /\ Included(1)
    /\ detailData.heartRate.set

SeriesSlots ==
    << <<MetricHeartRate, detailData.heartRate>>,
       <<MetricActiveEnergy, detailData.activeEnergy>>,
       <<MetricRestingEnergy, detailData.restingEnergy>>,
       <<MetricDistance, detailData.distance>>,
       <<MetricStepCount, detailData.stepCount>>,
       <<MetricRecovery, detailData.heartRateRecovery>> >>

IsGpx(k) == EndsWith(detailFiles[k].name, DotGpx)

\* C8: the name is split on "-": last segment the timestamp, second-to-last
\* the metric, the earlier segments rejoined with "-" the type token; a file
\* is included only if its type token equals the workout type exactly, a name
\* of fewer than 3 segments is never included, and a series slot is filled
\* exactly when an included non-GPX file carries that slot's metric.
C8_TypeTokenExact ==
    dpc \in {"loop", "returned"} =>
        /\ \A k \in Examined : Included(k) => TypeMatches(k)
        /\ \A k \in Examined : Len(Segments(k)) < 3 => ~Included(k)
        /\ \A n \in 1..Len(SeriesSlots) :
            SeriesSlots[n][2].set <=>
                \E k \in Examined :
                    Included(k) /\ ~IsGpx(k) /\ MetricToken(k) = SeriesSlots[n][1]
        /\ detailData.route.set <=> \E k \in Examined : Included(k) /\ IsGpx(k)

C8_Witness ==
    /\ dpc = "returned"
    /\ forWorkout.name = TypeHyphen
    /\ Len(detailFiles) = 2
    /\ detailFiles[1].name = NameHyphenType
    /\ detailFiles[2].name = NameTwoParts
    /\ matched = {1}
    /\ detailData.stepCount.set


(***************************************************************************)
(* Further claims about the ZIP container decoder, checked under SpecZip.  *)
(***************************************************************************)
SignatureAt(b, k) == k >= 0 /\ k + 4 <= Len(b) /\ SubSeq(b, k + 1, k + 4) = EocdSignature

\* the offsets whose four bytes lie within the last 64 KiB + 22 bytes
TrailingWindow(b) == { k \in (Len(b) - (65536 + 22))..(Len(b) - 4) : k >= 0 }

SignatureInWindow(b) == \E k \in TrailingWindow(b) : SignatureAt(b, k)

SignatureBeforeWindow(b) ==
    \E k \in 0..(Len(b) - (65536 + 22) - 1) : SignatureAt(b, k)

ParseReturned == zpc \in {"decode", "done", "inflateError"}

\* C11: parseZipEntries returns an empty list for every buffer shorter than 22
\* bytes and for every buffer in which 0x06054b50 occurs at no offset within
\* the last 64 KiB + 22 bytes; a signature that occurs only earlier is not used.
C11_NoTrailingSignatureGivesEmpty ==
    (zpc # "parse" /\ (Len(bytes) < 22 \/ ~SignatureInWindow(bytes)))
        => (ParseReturned /\ entries = <<>> /\ walkEnd = "empty")

C11_Witness ==
    /\ zpc = "done"
    /\ SignatureBeforeWindow(bytes)
    /\ ~SignatureInWindow(bytes)
    /\ entries = <<>>

\* the walk left the loop through one of its exits this step
WalkStopsNow == zpc = "walk" /\ zpc' = "decode"

\* the recorded names follow the order of the central directory, whose k-th
\* record is named EntryName(k)
InDirectoryOrder ==
    \A a, b \in 1..Len(entries) : a < b => entries[a].name[1] < entries[b].name[1]

\* C12: when the central-directory walk stops early (a record without
\* 0x02014b50, a truncated buffer, a file-name length past the buffer) the
\* entries collected before the stopping point are all returned, in
\* central-directory order, and no later record contributes an entry.
C12_PartialResultsKept ==
    /\ [][WalkStopsNow => (entries' = entries)]_vars
    /\ [][(zpc = "decode" \/ zpc = "done") => (entries' = entries)]_vars
    /\ [](Len(entries) <= i /\ InDirectoryOrder)

C12_Witness ==
    /\ zpc = "done"
    /\ walkEnd = "sig"
    /\ totalEntries = 2
    /\ i = 1
    /\ Len(entries) = 1
    /\ entries[1].name = EntryName(1)

(***************************************************************************)
(* Further claims about processZipFile, checked under SpecIngest.          *)
(***************************************************************************)
\* entries handed to decodeZipEntry on a two-byte buffer: every method of
\* ProbeMethods with every placement of the payload in or past the buffer
ProbeBuffer == <<104, 105>>

ProbeMethods == {0, 1, 8, 9, 12}

ProbeEntries ==
    [ name : {<<97>>}, compressionMethod : ProbeMethods,
      compressedSize : 0..3, dataStart : 0..3 ]

NullOnly == { [kind |-> "null", text |-> <<>>] }

UndecodableGivesNull ==
    \A e \in ProbeEntries :
        (e.compressionMethod \notin {0, 8}
            \/ e.dataStart + e.compressedSize > Len(ProbeBuffer))
        => decodeZipEntry(ProbeBuffer, e) = NullOnly

\* the entries the classification loop is done with
Classified == 1..(idx - 1)

\* the entry names that end in .csv or .gpx and are not summary names
DetailNamed ==
    { n \in EntryNames :
        /\ ~IsSummaryName(BaseName(n))
        /\ IsDetailName(BaseName(n)) }

BaseNameOf == [n \in EntryNames |-> BaseName(n)]

IsDetailCandidate(k) == zipFile[k].name \in DetailNamed

DetailIndices == { detailEntries[k].entry : k \in 1..Len(detailEntries) }

DetailSetIs(kept) ==
    /\ DetailIndices = kept
    /\ Len(detailEntries) = Cardinality(kept)
    /\ \A a, b \in 1..Len(detailEntries) :
        a < b => detailEntries[a].entry < detailEntries[b].entry
    /\ \A k \in 1..Len(detailEntries) :
        /\ detailEntries[k].name = BaseNameOf[zipFile[detailEntries[k].entry].name]
        /\ detailEntries[k].csvText = zipFile[detailEntries[k].entry].decode.text

\* C13 as stated: decodeZipEntry returns null without throwing for an entry
\* of a method other than 0 and 8 and for an entry whose payload runs past the
\* buffer; processZipFile leaves such an entry out of the detail set and
\* includes every other .csv/.gpx entry that decodes.
C13_Original ==
    /\ UndecodableGivesNull
    /\ ppc # "idle" =>
        DetailSetIs({ k \in Classified :
                        IsDetailCandidate(k) /\ zipFile[k].decode.kind = "text" })

\* C13: decodeZipEntry returns null without throwing for an entry of a method
\* other than 0 and 8 and for an entry whose payload runs past the buffer;
\* processZipFile leaves such an entry out of the detail set, and of the other
\* .csv/.gpx entries that are not the summary it includes, in archive order,
\* exactly those that decode to a non-empty text.
C13_NullEntryLeftOut ==
    /\ UndecodableGivesNull
    /\ ppc # "idle" =>
        DetailSetIs({ k \in Classified :
                        /\ IsDetailCandidate(k)
                        /\ zipFile[k].decode.kind = "text"
                        /\ zipFile[k].decode.text # "" })

C13_Witness ==
    /\ ppc = "done"
    /\ Len(zipFile) = 2
    /\ zipFile[1] = [name |-> NameD1, decode |-> Null]
    /\ zipFile[2].name = NameG1
    /\ idx = 3
    /\ Len(detailEntries) = 1
    /\ detailEntries[1].entry = 2

(***************************************************************************)
(* The round trip of a stored entry, checked under SpecZip.                *)
(***************************************************************************)
\* well-formed archives holding exactly one stored entry, with or without
\* extra fields and an archive comment
StoredEntrySpecs == { e \in EntrySpecs : e.kind \in {"ok", "xtra"} /\ e.method = 0 }

WellFormedEnds == {"ok", "comment"}

\* C14: for a well-formed archive holding exactly one stored entry,
\* parseZipEntries returns exactly one entry, with that entry's name, and
\* decodeZipEntry on it returns the original payload bytes decoded as text,
\* the payload being read at localHeaderOffset + 30 + local name length +
\* local extra length.
C14_StoredRoundTrip ==
    \A e \in StoredEntrySpecs : \A ek \in WellFormedEnds :
        bytes = Archive(<<e>>, ek) =>
            /\ zpc \notin {"rangeError", "inflateError"}
            /\ zpc \in {"decode", "done"} =>
                /\ Len(entries) = 1
                /\ entries[1].name = Utf8Decode(EntryName(1))
                /\ entries[1].compressedSize = Len(e.data)
                /\ entries[1].dataStart =
                    Len(LocalRecord(e, 1)) - Len(e.data)
                /\ Slice(bytes, entries[1].dataStart,
                         entries[1].dataStart + entries[1].compressedSize) = e.data
            /\ zpc = "done" =>
                decoded = << [kind |-> "text", text |-> Utf8Decode(e.data)] >>

C14_Witness ==
    /\ zpc = "done"
    /\ bytes = Archive(<<[kind |-> "xtra", method |-> 0, data |-> <<239, 187, 191, 104>>]>>,
                       "comment")
    /\ Len(entries) = 1
    /\ decoded = << [kind |-> "text", text |-> <<104>>] >>

(***************************************************************************)
(* Claims about parseCsvLine, checked under SpecLine.                      *)
(***************************************************************************)
Quote == "\""

\* the reading of the line up to and including character k: inQ, a quoted
\* span is open; half, character k opened a doubled quote whose second half
\* is character k + 1
Reading[k \in 0..Len(lineArg)] ==
    IF k = 0 THEN [inQ |-> FALSE, half |-> FALSE]
    ELSE LET before == Reading[k - 1] IN
        IF before.half THEN [inQ |-> before.inQ, half |-> FALSE]
        ELSE IF lineArg[k] # Quote THEN [inQ |-> before.inQ, half |-> FALSE]
        ELSE IF before.inQ /\ k < Len(lineArg) /\ lineArg[k + 1] = Quote
        THEN [inQ |-> TRUE, half |-> TRUE]
        ELSE [inQ |-> ~before.inQ, half |-> FALSE]

\* a comma outside every quoted span
IsSeparator(k) ==
    lineArg[k] = "," /\ ~Reading[k - 1].inQ /\ ~Reading[k - 1].half

\* a quote character that opens or closes a span
IsDelimiter(k) ==
    lineArg[k] = Quote /\ ~Reading[k - 1].half /\ ~Reading[k].half

\* the second half of a doubled quote
IsSecondHalf(k) == Reading[k - 1].half

Separators == { k \in 1..Len(lineArg) : IsSeparator(k) }

\* the characters of field n (1-based) that stay in it, by position
FieldPositions(n) ==
    { k \in 1..Len(lineArg) :
        /\ ~IsSeparator(k) /\ ~IsDelimiter(k) /\ ~IsSecondHalf(k)
        /\ Cardinality({ m \in Separators : m < k }) = n - 1 }

FieldText(n) ==
    LET P == FieldPositions(n)
    IN  [j \in 1..Cardinality(P) |->
            lineArg[CHOOSE k \in P : Cardinality({ m \in P : m < k }) = j - 1]]

\* C15: parseCsvLine never throws and returns one field per comma outside a
\* double-quoted span, plus one; the quotes delimiting a span are removed, a
\* doubled quote inside a span gives one quote character, every field is
\* trimmed, and after an unmatched opening quote the rest of the line, commas
\* included, stays in one field.
C15_FieldsPerUnquotedComma ==
    tpc = "returned" =>
        /\ Len(fields) = Cardinality(Separators) + 1
        /\ \A n \in 1..Len(fields) : fields[n] = Trim(FieldText(n))
        /\ Reading[Len(lineArg)].inQ =>
            \A k \in 1..Len(lineArg) :
                (\A m \in k..Len(lineArg) : Reading[m].inQ) => ~IsSeparator(k)
        /\ lineArg = QuotedCommaLine => fields = << <<"a">>, <<"b", ",", "c">>, <<"d">> >>
        /\ lineArg = DoubledQuoteLine => fields = << <<"a">>, <<"b", Quote, "c">>, <<"d">> >>

\* an unmatched opening quote keeps the comma after it inside the last field
C15_Witness ==
    /\ tpc = "returned"
    /\ lineArg = <<"a", ",", Quote, "a", ",">>
    /\ fields = << <<"a">>, <<"a", ",">> >>

(***************************************************************************)
(* Further claims about extractDetailDataForWorkout, under SpecDetail.     *)
(***************************************************************************)
\* the included CSV files examined so far that name the metric
FilesNaming(metric) ==
    { k \in Examined : Included(k) /\ ~IsGpx(k) /\ MetricToken(k) = metric }

LastOf(S) == CHOOSE k \in S : \A m \in S : m <= k

\* C16: when several detail CSV files match the workout and name the same
\* metric, the slot of that metric holds the series parsed from the last of
\* them in detail-entry order, and that series only.
C16_LastFileWinsSlot ==
    dpc \in {"loop", "returned"} =>
        \A n \in 1..Len(SeriesSlots) :
            LET files == FilesNaming(SeriesSlots[n][1]) IN
            files # {} =>
                SeriesSlots[n][2] =
                    SomeSeries(parseDetailCsv(detailFiles[LastOf(files)].csvText))

C16_Witness ==
    /\ dpc = "returned"
    /\ Len(detailFiles) = 2
    /\ detailFiles[1].name = NameHeartRate
    /\ detailFiles[2].name = NameShortStamp
    /\ matched = {1, 2}
    /\ detailData.heartRate = SomeSeries(parseDetailCsv(detailFiles[2].csvText))
    /\ parseDetailCsv(detailFiles[1].csvText) # parseDetailCsv(detailFiles[2].csvText)

\* metric token -> slot of the bundle
MetricTable ==
    << <<MetricHeartRate, "heartRate">>,
       <<MetricActiveEnergy, "activeEnergy">>,
       <<MetricRestingEnergy, "restingEnergy">>,
       <<MetricDistance, "distance">>,
       <<MetricStepCount, "stepCount">>,
       <<MetricRecovery, "heartRateRecovery">> >>

TableRows(metric) == { n \in 1..Len(MetricTable) : MetricTable[n][1] = metric }

\* this step of the loop includes the file under the cursor
IncludesNow ==
    /\ dpc = "loop"
    /\ detailIdx <= Len(detailFiles)
    /\ detailIdx \in matched'

BundleAfterInclusion ==
    LET file == detailFiles[detailIdx]
        seg == Split(file.name, "-")
        metric == seg[Len(seg) - 1]
    IN  IF EndsWith(file.name, DotGpx)
        THEN [detailData EXCEPT !.route = [set |-> TRUE, text |-> file.csvText]]
        ELSE IF TableRows(metric) = {} THEN detailData
        ELSE [detailData EXCEPT
                ![MetricTable[CHOOSE n \in TableRows(metric) : TRUE][2]] =
                    SomeSeries(parseDetailCsv(file.csvText))]

\* C17: a matching detail CSV is assigned to a slot only when its metric token
\* equals an entry of the table exactly; with any other metric token it leaves
\* every slot and the route unchanged; a matching .gpx file sets only the
\* route, to the file text verbatim, and no metric slot.
C17_OnlyTableMetricsFillSlots ==
    /\ [][IncludesNow => (detailData' = BundleAfterInclusion)]_vars
    /\ [][(dpc = "loop" /\ ~IncludesNow) => (detailData' = detailData)]_vars

C17_Witness ==
    /\ dpc = "returned"
    /\ Len(detailFiles) = 2
    /\ detailFiles[1].name = NameOtherMetric
    /\ detailFiles[2].name = NameGpxHeartRate
    /\ matched = {1, 2}
    /\ detailData.route = [set |-> TRUE, text |-> GpxText]
    /\ \A n \in 1..Len(SeriesSlots) : ~SeriesSlots[n][2].set

\* the archive has no entry named as a summary, or the one processZipFile
\* holds when the loop is over (the last one) does not decode
NoSummaryEntry == \A k \in 1..Len(zipFile) : zipFile[k].name \notin SummaryNamed

SummaryFailsToDecode ==
    LET last == LastSummaryIndex
    IN  /\ last # 0
        /\ zipFile[last].decode.kind \in {"null", "throw"}

NothingProduced ==
    /\ rows = <<>>
    /\ created = <<>>
    /\ correlated = <<>>
    /\ saved = <<>>
    /\ ~deleteOnSuccess
    /\ ~removed

\* C18: when the archive has no summary entry, or the summary entry fails to
\* decode, processZipFile creates no note, correlates and saves no detail
\* data, never enters the import loop, and an exception thrown by the decode
\* is caught inside processZipFile, which then runs its finally block and
\* returns.
C18_NoSummaryNothingProduced ==
    (ppc # "idle" /\ (NoSummaryEntry \/ SummaryFailsToDecode)) =>
        /\ NothingProduced
        /\ ppc \in {"read", "classify", "finally", "done"}
        /\ (ppc = "done" /\ idx > Len(zipFile) /\ ~caught) =>
                (NoSummaryEntry \/ zipFile[LastSummaryIndex].decode.kind # "throw")

\* C18 witness: after a summary that decoded, the last summary entry makes the
\* decoder throw; a detail entry had been decoded; the run is over with the
\* exception caught and nothing produced.
C18_Witness ==
    /\ ppc = "done"
    /\ Len(zipFile) = 3
    /\ zipFile[1] = [name |-> NameW2, decode |-> Text("S3")]
    /\ zipFile[2].name = NameG1
    /\ zipFile[3] = [name |-> NameW1, decode |-> Throws]
    /\ Len(detailEntries) = 1
    /\ caught
    /\ created = <<>>

\* the notes of the vault before the run: a path is created only when it is
\* not in the vault (line 626)
VaultBefore == vault \ { created[k] : k \in 1..Len(created) }

\* the rows of nxt..(upTo - 1) that give a workout whose note does not exist,
\* by their note paths, in row order
RECURSIVE NotesOfRows(_, _)
NotesOfRows(nxt, upTo) ==
    IF nxt >= upTo THEN <<>>
    ELSE IF rows[nxt].ok /\ rows[nxt].path \notin VaultBefore
         THEN <<rows[nxt].path>> \o NotesOfRows(nxt + 1, upTo)
         ELSE NotesOfRows(nxt + 1, upTo)

\* C19: importCsvRowsWithDetailData takes the summary rows in row order: at
\* every point the notes created so far are those of the valid rows already
\* passed, in the order of the rows; a row that normalises to null adds
\* nothing and the rows after it are still processed.
C19_NotesInRowOrder ==
    (ppc \in {"import", "finally", "done"} /\ rows # <<>>) =>
        /\ rowIdx \in 1..(Len(rows) + 1)
        /\ created = NotesOfRows(1, rowIdx)

\* C19 witness: the second of three rows normalises to null; the notes of the
\* first and of the third row were created, in that order.
C19_Witness ==
    /\ ppc = "done"
    /\ Len(rows) = 3
    /\ ~rows[2].ok
    /\ rowIdx = 4
    /\ created = <<rows[1].path, rows[3].path>>

\* the .csv/.gpx entries of the whole archive, other than summaries, that
\* decode to a non-empty text
FullDetailSet ==
    { k \in 1..Len(zipFile) :
        /\ IsDetailCandidate(k)
        /\ zipFile[k].decode.kind = "text"
        /\ zipFile[k].decode.text # "" }

\* a detail set passed to extractDetailDataForWorkout is the complete one of
\* this archive, in archive order, each element with the name and text of its
\* entry
IsFullDetailSet(passed) ==
    /\ LET full == FullDetailSet
       IN  /\ { passed[k].entry : k \in 1..Len(passed) } = full
           /\ Len(passed) = Cardinality(full)
    /\ \A a, b \in 1..Len(passed) : a < b => passed[a].entry < passed[b].entry
    /\ \A k \in 1..Len(passed) :
        /\ passed[k].name = BaseNameOf[zipFile[passed[k].entry].name]
        /\ passed[k].csvText = zipFile[passed[k].entry].decode.text

\* C20: within one run of processZipFile no workout is correlated before the
\* loop over the entries has decoded every candidate detail entry, and every
\* workout of the run is correlated against the same detail set, which is the
\* complete set of decoded detail entries of this archive and holds nothing
\* else.
C20_CorrelatedAgainstFullSet ==
    correlated # <<>> =>
        /\ idx > Len(zipFile)
        /\ \A k \in 1..Len(correlated) : correlated[k].against = detailEntries
        /\ IsFullDetailSet(detailEntries)

\* C20 witness: an archive with two detail entries before its summary; two
\* workouts of the run were correlated, each against both entries.
C20_Witness ==
    /\ ppc = "done"
    /\ Len(zipFile) = 3
    /\ Cardinality(FullDetailSet) = 2
    /\ Len(correlated) = 2
    /\ correlated[1].path # correlated[2].path
    /\ Len(correlated[1].against) = 2
    /\ saved # <<>>

(***************************************************************************)
(* Further claims about parseDetailCsv, checked under SpecSeries.          *)
(***************************************************************************)
\* the lines of the text, as parseDetailCsv counts them (after trim)
TextLines == Split(Trim(csvText), "\n")

\* C22: parseDetailCsv returns the empty sequence for a text of fewer than two
\* lines; otherwise it returns one point for each data line that tokenizes to
\* at least two fields, in line order, and the timestamp of the point is the
\* first field of its line.
C22_OnePointPerDataLine ==
    spc = "done" =>
        IF Len(TextLines) < 2 THEN dataPoints = <<>>
        ELSE LET kept == KeptDataLines
             IN  /\ Len(dataPoints) = Len(kept)
                 /\ \A k \in 1..Len(kept) : dataPoints[k].timestamp = kept[k][1]

\* C22 witness: of two data lines the first has one field only; the one point
\* returned is that of the second line.
C22_Witness ==
    /\ spc = "done"
    /\ Len(TextLines) = 3
    /\ TextLines[2] = RowShort
    /\ TextLines[3] = RowFull
    /\ Len(dataPoints) = 1
    /\ dataPoints[1].timestamp = <<"1">>

\* the columns the layout of the returned series reads, by field name
ColumnsRead ==
    IF LayoutByTitle = "value" THEN [value |-> 1]
    ELSE [min |-> 1, max |-> 2, avg |-> 3]

\* what parseFloat makes of column c of a tokenized line
Reads(values, c) == IF c + 1 <= Len(values) THEN parseFloat(values[c + 1]) ELSE NaN

\* C23: a numeric column that does not parse as a number is absent from the
\* point (it is not 0, and nothing is thrown: the call returns), and the point
\* is still returned with its timestamp and its other columns.
C23_UnparsedColumnAbsent ==
    SeriesReturned =>
        LET kept == KeptDataLines
        IN  /\ Len(dataPoints) = Len(kept)
            /\ \A k \in 1..Len(kept) :
                /\ DOMAIN dataPoints[k] = {"timestamp"} \cup DOMAIN ColumnsRead
                /\ dataPoints[k].timestamp = kept[k][1]
                /\ \A f \in DOMAIN ColumnsRead :
                    LET x == Reads(kept[k], ColumnsRead[f])
                    IN  /\ x.kind = "NaN" => dataPoints[k][f] = Undefined
                        /\ (x.kind = "number" /\ x.milli # 0) => dataPoints[k][f] = x

\* C23 witness: the line 3,x,8.5,9 gave a point without min, with max 8.5 and
\* avg 9.
C23_Witness ==
    /\ SeriesReturned
    /\ Len(TextLines) = 2
    /\ TextLines[2] = RowBad
    /\ Len(dataPoints) = 1
    /\ DOMAIN dataPoints[1] = {"timestamp", "min", "max", "avg"}
    /\ dataPoints[1].min = Undefined
    /\ dataPoints[1].max = Num(8500)
    /\ dataPoints[1].avg = Num(9000)

Populated(point, f) == f \in DOMAIN point /\ point[f] # Undefined

\* C24: no returned point has value populated together with min, max or avg,
\* and all points of one returned series have the same layout.
C24_OneLayoutPerSeries ==
    \A j \in 1..Len(dataPoints) :
        /\ ~(Populated(dataPoints[j], "value")
                /\ \E f \in {"min", "max", "avg"} : Populated(dataPoints[j], f))
        /\ DOMAIN dataPoints[j] \in { {"timestamp", "value"},
                                      {"timestamp", "min", "max", "avg"} }
        /\ \A k \in 1..Len(dataPoints) : DOMAIN dataPoints[j] = DOMAIN dataPoints[k]

\* C24 witness: under a Value header a row of two fields and a row of four
\* fields both gave points in the value layout.
C24_Witness ==
    /\ SeriesReturned
    /\ Len(TextLines) = 3
    /\ TextLines[2] = RowTwo
    /\ TextLines[3] = RowFull
    /\ Len(dataPoints) = 2
    /\ DOMAIN dataPoints[1] = {"timestamp", "value"}
    /\ DOMAIN dataPoints[2] = {"timestamp", "value"}
    /\ Populated(dataPoints[2], "value")

\* C25: every column that parses as a finite number, a reading of exactly 0
\* included, is on the point with that number; a field is absent only when
\* its column fails to parse.
C25_EveryParsedNumberKept ==
    SeriesReturned =>
        LET kept == KeptDataLines
        IN  /\ Len(dataPoints) = Len(kept)
            /\ \A k \in 1..Len(kept) : \A f \in DOMAIN ColumnsRead :
                LET x == Reads(kept[k], ColumnsRead[f])
                IN  IF x.kind = "number"
                    THEN f \in DOMAIN dataPoints[k] /\ dataPoints[k][f] = x
                    ELSE f \in DOMAIN dataPoints[k] => dataPoints[k][f] = Undefined

(***************************************************************************)
(* Claims about the removal of the archive and about existing notes,      *)
(* checked under SpecIngest.                                               *)
(***************************************************************************)
\* C28: processZipFile removes the archive only after the summary gave at
\* least one row and importCsvRowsWithDetailData returned without throwing;
\* with no summary, a summary that does not decode, zero rows, or a step that
\* throws, the archive is left in place.
C28_RemovedOnlyAfterImport ==
    /\ (deleteOnSuccess \/ removed) =>
            /\ rows # <<>>
            /\ rowIdx > Len(rows)
            /\ ~caught
            /\ ~NoSummaryEntry
            /\ ~SummaryFailsToDecode
    /\ (ppc = "done" /\ (caught \/ rows = <<>>)) => ~removed

\* C28 witness: one run ended with the archive removed after all three rows
\* were passed.
C28_Witness ==
    /\ ppc = "done"
    /\ removed
    /\ Len(rows) = 3
    /\ rowIdx = 4
    /\ created # <<>>

\* C28 witness, second case: a summary without rows ended the run with the
\* archive left in place.
C28_WitnessKept ==
    /\ ppc = "done"
    /\ ~removed
    /\ ~caught
    /\ summaryEntry # 0
    /\ zipFile[summaryEntry].decode = Text("S0")

\* what a step of the import loop did with the row it was at
RowPassed == ppc = "import" /\ rowIdx' = rowIdx + 1

NoteWritten == ppc = "import" /\ created' # created

\* C30: importCsvRowsWithDetailData never creates a note at a path that
\* exists and never removes one: a row whose note path exists is passed with
\* no note created, no correlation and no detail data saved, and a note that
\* is created is one that was not in the vault; so a run on an archive that
\* was imported before, wholly or in part, creates notes only for the rows
\* whose notes are missing.
C30_ExistingNoteUntouched ==
    [][ /\ vault \subseteq vault'
        /\ NoteWritten =>
            /\ created' = Append(created, rows[rowIdx].path)
            /\ rows[rowIdx].path \notin vault
            /\ vault' = vault \cup {rows[rowIdx].path}
        /\ (RowPassed /\ rows[rowIdx].ok /\ rows[rowIdx].path \in vault) =>
            /\ ~NoteWritten
            /\ correlated' = correlated
            /\ saved' = saved
            /\ vault' = vault
        /\ (saved' # saved /\ saved' # <<>>) => NoteWritten
      ]_vars

\* C30 witness: the note of the first row existed before the run; the run
\* created the note of the third row only, and the archive was removed.
C30_Witness ==
    /\ ppc = "done"
    /\ Len(rows) = 3
    /\ rowIdx = 4
    /\ rows[1].path \in vault
    /\ created = <<rows[3].path>>
    /\ rows[1].path \notin { correlated[k].path : k \in 1..Len(correlated) }

\* C30 witness, second case: every note existed before the run; nothing was
\* created.
C30_WitnessAllImported ==
    /\ ppc = "done"
    /\ Len(rows) = 3
    /\ rowIdx = 4
    /\ vault = {rows[1].path, rows[3].path}
    /\ created = <<>>
    /\ correlated = <<>>

(***************************************************************************)
(* Claims about scanWatchFolder and processCsvSummaryFile, checked under   *)
(* SpecScan and, for what must eventually happen, under SpecScanFair.      *)
(***************************************************************************)
\* the invocations that are past the guard and have not left the try block
Running == { p \in Invocations : scan[p].pc \in InBody }

\* invocation p returns at the guard in this step
TurnedAway(p) == scan[p].pc = "idle" /\ scan'[p].pc = "rejected"

\* C26: at most one scanWatchFolder body is processing files at any time, and
\* while one is (isScanningFolder is true) every invocation that arrives
\* returns at once, leaving the folder, the files removed, the flag and the
\* running scan as they are.
C26_OneScanAtATime ==
    /\ [](Cardinality(Running) <= 1 /\ (Running # {} => isScanningFolder))
    /\ [][\A p \in Invocations :
            /\ (scan[p].pc = "idle" /\ isScanningFolder /\ scan'[p].pc # "idle")
                    => scan'[p].pc \in {"rejected", "aborted"}
            /\ TurnedAway(p) =>
                /\ isScanningFolder /\ isScanningFolder'
                /\ watchFolder' = watchFolder
                /\ removals' = removals
                /\ \A q \in Invocations \ {p} : scan'[q] = scan[q]
         ]_vars

\* C26 witness: one scan is in the middle of its files, one invocation that
\* arrived meanwhile was rejected, and an earlier scan had run to its end.
C26_Witness ==
    \E p, q, r \in Invocations :
        /\ scan[p].pc = "csvImport"
        /\ scan[q].pc = "rejected"
        /\ scan[r].pc = "done" /\ scan[r].how = "normal"
        /\ Running = {p}

\* C27: every invocation that sets isScanningFolder resets it when it leaves
\* the try block, and does leave it, whether the scan ends normally, finds no
\* folder, or an awaited operation throws; an invocation rejected by the guard
\* leaves the flag set.
C27_FlagAlwaysReset ==
    /\ \A p \in Invocations : (p \in Running) ~> (scan[p].pc = "done")
    /\ [][\A p \in Invocations :
            /\ (p \in Running /\ scan'[p].pc = "done") => ~isScanningFolder'
            /\ TurnedAway(p) => isScanningFolder'
         ]_vars
    /\ [](Running = {} => ~isScanningFolder)

\* C27 witness: one scan ended by an exception, one because the folder was
\* missing, and the flag is clear.
C27_Witness ==
    \E p, q, r \in Invocations :
        /\ scan[p].pc = "done" /\ scan[p].how = "threw"
        /\ scan[q].pc = "done" /\ scan[q].how = "noFolder"
        /\ scan[r].pc = "rejected"
        /\ ~isScanningFolder

\* C29: processCsvSummaryFile removes a CSV only after at least one workout
\* row was parsed from it and importCsvRows returned; a CSV that gives zero
\* rows is never removed.
C29_CsvRemovedOnlyAfterImport ==
    /\ \A k \in 1..Len(removals) : removals[k].rowCount >= 1
    /\ \A p \in Invocations :
        (scan[p].pc = "csvRemove" /\ scan[p].deleteOnSuccess)
            => RowCount(Head(scan[p].todo)) >= 1

(***************************************************************************)
(* Claim about the ingestion core called twice, checked under SpecCore.    *)
(***************************************************************************)
\* the outcome of decodeZipEntry on entry k is fixed by the model (for a
\* deflate payload other than the samples the outcome of inflateRawSync is
\* left open, and nothing is compared)
DecodeDetermined(k) == Cardinality(decodeZipEntry(bytes, entries[k])) = 1

SecondCallOver ==
    /\ runNo = "second"
    /\ ZipCallOver \/ dpc = "returned" \/ wpc \in {"returned", "threw"}

C21_WitnessBundle ==
    /\ runNo = "second"
    /\ dpc = "returned"
    /\ matchedCount >= 1
    /\ firstResult[1].bundle = detailData

====
